---------------------------- MODULE Spec2Model ----------------------------
(***************************************************************************)
(* Model of the lsp-object-storage library: Set (src/src/container.ts,     *)
(* second half, "sets.ts"), Container (src/src/container.ts, first half)   *)
(* and Database (src/unnamed/part_001, "database.ts").                     *)
(*                                                                         *)
(* A JavaScript Map is an ordered map: a sequence of [key, value] records  *)
(* in insertion order.  Writing to an existing key keeps its position,     *)
(* deleting a key removes the record, a new key is appended.  A plain      *)
(* object (Container._data) is kept in the order in which for-in           *)
(* enumerates its keys: the keys that are array indices first, in          *)
(* ascending numeric order, then the other keys in the order of their      *)
(* creation.  A string is a sequence of characters, so that                *)
(* String.startsWith is the prefix relation on sequences.                  *)
(***************************************************************************)
EXTENDS Integers, Sequences, FiniteSets, TLC

VARIABLES
  set,    \* a stand-alone Set: its _data map, id -> list of entries
  col,    \* a stand-alone Container: its _data object, type -> Set
  db,     \* a Database: its _containers map, root -> Container
  last,   \* the last operation: [op, arg, ret]
  prev,   \* the operation on the stand-alone Set before the last one
  steps   \* number of operations performed on col / db so far

vars == <<steps, set, col, db, last, prev>>

(***************************************************************************)
(* Input domains.                                                          *)
(***************************************************************************)
Ids == {"x", "y"}

\* the reference strings "ab" and "ac"
References == {<<"a", "b">>, <<"a", "c">>}

Payloads == {"p1", "p2"}

\* an entry: an IObject (id, reference) with a category-specific payload
Entries == [id : Ids, reference : References, payload : Payloads]

\* the objects handed to a Container / a Database: one per id and reference,
\* and a second one for the id "x" and the reference "ab"
Objects ==
  {e \in Entries : e.payload = "p1" \/ (e.id = "x" /\ e.reference = <<"a", "b">>)}

\* the lists handed to Set.set(id, list): no entry, one entry, or two entries
\* of that id with different payloads, which may share their reference
\* (Set.set does not check)
SetLists(id) ==
  LET E == {e \in Entries : e.id = id}
  IN {<<>>} \cup {<<e>> : e \in E}
       \cup {<<e1, e2>> : e1 \in {e \in E : e.payload = "p1"},
                          e2 \in {e \in E : e.payload = "p2"}}

\* the categories of the specification the Container / Database is built for:
\* a name, and a name that is an array index
Types == {"t1", "1"}

\* the category names that are array indices ("0", "1", ...), with their value
IndexOf == [type \in {"1", "2"} |-> IF type = "1" THEN 1 ELSE 2]

\* the categories of the Database that is traversed: two names and two array
\* indices
TraversalTypes == {"t1", "t2", "1", "2"}

\* the number of operations performed on a Database that is traversed or
\* searched
MaxTraversalSteps == 5

\* the root strings "a" and "ab": both are a prefix of "ab", only "a" of "ac"
Roots == {<<"a">>, <<"a", "b">>}

\* the number of operations performed on a Database
MaxSteps == 5

\* the number of operations performed on a stand-alone Container
MaxContainerSteps == 4

\* the number of operations performed on a Database whose containers are also
\* written directly
MaxDirectSteps == 4

\* the strings "a", "ab", "ac": what deleteStartsWith is called with
Prefixes == {<<"a">>, <<"a", "b">>, <<"a", "c">>}

\* JavaScript's undefined: the value of a missing key, the result of a function
\* that returns nothing
Undefined == [undefined |-> TRUE]

(***************************************************************************)
(* Strings and ordered maps.                                               *)
(***************************************************************************)
\* String.prototype.startsWith
StartsWith(s, p) == Len(p) <= Len(s) /\ SubSeq(s, 1, Len(p)) = p

\* position of key k in the ordered map m, 0 when absent
KeyIndex(m, k) ==
  IF \E i \in 1..Len(m) : m[i].key = k
  THEN CHOOSE i \in 1..Len(m) : m[i].key = k
  ELSE 0

MapHas(m, k) == KeyIndex(m, k) # 0

MapGet(m, k) == m[KeyIndex(m, k)].value

MapSet(m, k, v) ==
  IF MapHas(m, k)
  THEN [m EXCEPT ![KeyIndex(m, k)].value = v]
  ELSE Append(m, [key |-> k, value |-> v])

MapDelete(m, k) == SelectSeq(m, LAMBDA r : r.key # k)

\* an o[k] = v that enumerates every new key last, array indices too
ObjectSetLast(o, k, v) == MapSet(o, k, v)

\* o[k] = v on a plain object, kept in the enumeration order of for-in: a new
\* key that is an array index goes after the array indices below it and
\* before every other key, any other new key goes last
ObjectSet(o, k, v) ==
  IF MapHas(o, k) \/ k \notin DOMAIN IndexOf
  THEN MapSet(o, k, v)
  ELSE LET below(r) == r.key \in DOMAIN IndexOf /\ IndexOf[r.key] < IndexOf[k]
       IN SelectSeq(o, below) \o <<[key |-> k, value |-> v]>>
            \o SelectSeq(o, LAMBDA r : ~below(r))

(***************************************************************************)
(* Predicates handed to deleteIf / find / filter: (value, id, type).       *)
(***************************************************************************)
PredHolds(p, value, key, type) ==
  CASE p.kind = "reference"  -> value.reference = p.arg
    [] p.kind = "startsWith" -> StartsWith(value.reference, p.arg)
    [] p.kind = "id"         -> value.id = p.arg
    [] p.kind = "payload"    -> value.payload = p.arg
    [] p.kind = "type"       -> type = p.arg
    [] p.kind = "object"     -> type = p.arg.type /\ value = p.arg.value
    [] p.kind = "all"        -> TRUE

RefPred(r) == [kind |-> "reference", arg |-> r]
StartPred(s) == [kind |-> "startsWith", arg |-> s]
IdPred(i) == [kind |-> "id", arg |-> i]
PayloadPred(x) == [kind |-> "payload", arg |-> x]
TypePred(t) == [kind |-> "type", arg |-> t]
AllPred == [kind |-> "all", arg |-> Undefined]
\* (x, id, type) => x === value, for a value stored under type
ObjectPred(type, value) == [kind |-> "object", arg |-> [type |-> type, value |-> value]]

\* the predicates a stand-alone Set is called with (the type is not used)
SetPreds ==
  {RefPred(r) : r \in References} \cup {StartPred(s) : s \in Prefixes}
    \cup {IdPred(i) : i \in Ids} \cup {PayloadPred(x) : x \in Payloads}

\* the predicates a Container / Database is called with
TypePreds ==
  {IdPred(i) : i \in Ids} \cup {TypePred(t) : t \in Types} \cup {AllPred}

(***************************************************************************)
(* IObject                                                                 *)
(***************************************************************************)
\* an equals that compares the whole objects
IObjectEqualsDeep(a, b) == a = b

\* IObject.equals
IObjectEquals(a, b) == a.id = b.id /\ a.reference = b.reference

(***************************************************************************)
(* Set                                                                     *)
(***************************************************************************)
NewSet == <<>>

\* Set.get: the list stored for id as [values |-> list], or undefined
SetGet(s, id) == IF MapHas(s, id) THEN [values |-> MapGet(s, id)] ELSE Undefined

\* a set that keeps the list of an id that has one
SetSetAbsent(s, id, value) == IF MapHas(s, id) THEN s ELSE MapSet(s, id, value)

\* Set.set
SetSet(s, id, value) == MapSet(s, id, value)

\* a findIndex that never finds the reference
FindIndexNever(values, reference) == 0

\* values.findIndex((v) => v.reference === reference); 0 stands for -1
FindIndex(values, reference) ==
  IF \E i \in 1..Len(values) : values[i].reference = reference
  THEN CHOOSE i \in 1..Len(values) :
         /\ values[i].reference = reference
         /\ \A j \in 1..(i - 1) : values[j].reference # reference
  ELSE 0

\* a Set.add that puts the value into the first group there is
SetAddFirstGroup(s, value) ==
  IF s = <<>> THEN MapSet(s, value.id, <<value>>)
  ELSE [s EXCEPT ![1].value = Append(@, value)]

\* a Set.add that pushes the value without looking for its reference
SetAddPush(s, value) ==
  LET values == IF MapHas(s, value.id) THEN MapGet(s, value.id) ELSE <<>>
  IN MapSet(s, value.id, Append(values, value))

\* a Set.add that puts a value of a new reference in front (unshift for push)
SetAddUnshift(s, value) ==
  LET values == IF MapHas(s, value.id) THEN MapGet(s, value.id) ELSE <<>>
      index  == FindIndex(values, value.reference)
  IN IF index # 0
     THEN MapSet(s, value.id, [values EXCEPT ![index] = value])
     ELSE MapSet(s, value.id, <<value>> \o values)

\* a Set.add that takes the entry of the same reference out of the list and
\* pushes the value at the end
SetAddMoveToEnd(s, value) ==
  LET values == IF MapHas(s, value.id) THEN MapGet(s, value.id) ELSE <<>>
      others == SelectSeq(values, LAMBDA v : v.reference # value.reference)
  IN MapSet(s, value.id, Append(others, value))

\* Set.add
SetAdd(s, value) ==
  LET values == IF MapHas(s, value.id) THEN MapGet(s, value.id) ELSE <<>>
      index  == FindIndex(values, value.reference)
  IN IF index # 0
     THEN MapSet(s, value.id, [values EXCEPT ![index] = value])
     ELSE MapSet(s, value.id, Append(values, value))

\* Set.has
SetHas(s, id) == MapHas(s, id)

\* Set.delete: [data, ret]
SetDelete(s, id) == [data |-> MapDelete(s, id), ret |-> MapHas(s, id)]

\* values.filter((value) => !predicate(value, key))
Remaining(values, key, type, p) ==
  SelectSeq(values, LAMBDA v : ~PredHolds(p, v, key, type))

\* the loop of a Set.deleteIf that counts the entries removed, not the groups
RECURSIVE SetDeleteIfEntriesLoop(_, _, _, _, _)
SetDeleteIfEntriesLoop(s, i, type, p, deleted) ==
  IF i > Len(s) THEN [data |-> s, ret |-> deleted]
  ELSE LET newValues == Remaining(s[i].value, s[i].key, type, p)
       IN SetDeleteIfEntriesLoop(MapSet(s, s[i].key, newValues), i + 1, type, p,
            deleted + Len(s[i].value) - Len(newValues))

SetDeleteIfEntries(s, type, p) == SetDeleteIfEntriesLoop(s, 1, type, p, 0)

\* the body of the forEach of Set.deleteIf, from group i on
RECURSIVE SetDeleteIfLoop(_, _, _, _, _)
SetDeleteIfLoop(s, i, type, p, deleted) ==
  IF i > Len(s) THEN [data |-> s, ret |-> deleted]
  ELSE LET newValues == Remaining(s[i].value, s[i].key, type, p)
       IN IF Len(newValues) # Len(s[i].value)
          THEN SetDeleteIfLoop(MapSet(s, s[i].key, newValues), i + 1, type, p, deleted + 1)
          ELSE SetDeleteIfLoop(s, i + 1, type, p, deleted)

\* Set.deleteIf: [data, ret]; type is the category the Set stands for
SetDeleteIf(s, type, p) == SetDeleteIfLoop(s, 1, type, p, 0)

\* Set.filter
RECURSIVE SetFilterLoop(_, _, _, _)
SetFilterLoop(s, i, type, p) ==
  IF i > Len(s) THEN <<>>
  ELSE SelectSeq(s[i].value, LAMBDA v : PredHolds(p, v, s[i].key, type))
         \o SetFilterLoop(s, i + 1, type, p)

SetFilter(s, type, p) == SetFilterLoop(s, 1, type, p)

\* a Set.find that returns the first value stored without asking the predicate
SetFindFirst(s, type, p) ==
  IF \E i \in 1..Len(s) : s[i].value # <<>>
  THEN s[CHOOSE i \in 1..Len(s) :
           s[i].value # <<>> /\ \A j \in 1..(i - 1) : s[j].value = <<>>].value[1]
  ELSE Undefined

\* Set.find
RECURSIVE SetFindLoop(_, _, _, _)
SetFindLoop(s, i, type, p) ==
  IF i > Len(s) THEN Undefined
  ELSE LET hits == SelectSeq(s[i].value, LAMBDA v : PredHolds(p, v, s[i].key, type))
       IN IF hits # <<>> THEN hits[1] ELSE SetFindLoop(s, i + 1, type, p)

SetFind(s, type, p) == SetFindLoop(s, 1, type, p)

\* the calls Set.forEach makes, from group i on: one [value, id, type] per
\* entry (the type is what Container.forEach adds to the call)
RECURSIVE SetForEachLoop(_, _, _)
SetForEachLoop(s, i, type) ==
  IF i > Len(s) THEN <<>>
  ELSE [n \in 1..Len(s[i].value) |->
          [value |-> s[i].value[n], id |-> s[i].key, type |-> type]]
         \o SetForEachLoop(s, i + 1, type)

\* Set.forEach
SetForEach(s, type) == SetForEachLoop(s, 1, type)

\* a ReferenceSet.get that tests startsWith for ===
ReferenceSetGetStartsWith(s, type, reference) == SetFilter(s, type, StartPred(reference))

\* ReferenceSet.get (the type is what the predicate of Set.filter is not given)
ReferenceSetGet(s, type, reference) == SetFilter(s, type, RefPred(reference))

(***************************************************************************)
(* Container: _data is an object type -> Set, in the order of for-in.      *)
(* Every operation yields [data, ret]: the container afterwards and the    *)
(* value returned.                                                         *)
(***************************************************************************)
NewContainer == <<>>

\* a _getSet that binds a new Set to the category each time it is called
ContainerGetSetFresh(c, type) == [data |-> MapSet(c, type, <<>>), ret |-> <<>>]

\* a _getSet that hands out a new Set without binding it to the category
ContainerGetSetUnbound(c, type) ==
  IF MapHas(c, type)
  THEN [data |-> c, ret |-> MapGet(c, type)]
  ELSE [data |-> c, ret |-> NewSet]

\* Container._getSet: the Set of the category, created when absent
ContainerGetSet(c, type) ==
  IF MapHas(c, type)
  THEN [data |-> c, ret |-> MapGet(c, type)]
  ELSE [data |-> ObjectSet(c, type, NewSet), ret |-> NewSet]

\* Container.get(type, id)
ContainerGet(c, type, id) ==
  LET g == ContainerGetSet(c, type)
  IN [data |-> g.data, ret |-> SetGet(g.ret, id)]

\* Container.add: this.get(type).add(value)
ContainerAdd(c, type, value) ==
  LET g == ContainerGetSet(c, type)
  IN [data |-> MapSet(g.data, type, SetAdd(g.ret, value)), ret |-> Undefined]

\* Container.has
ContainerHas(c, type, id) ==
  LET g == ContainerGetSet(c, type)
  IN [data |-> g.data, ret |-> SetHas(g.ret, id)]

\* a delete(type) that drops every category of the container
ContainerDeleteTypeAll(c, type) == [data |-> NewContainer, ret |-> MapHas(c, type)]

\* Container.delete(type)
ContainerDeleteType(c, type) ==
  [data |-> MapDelete(c, type), ret |-> MapHas(c, type)]

\* a Container.delete(type, id) that takes the branch of delete(type)
ContainerDeleteIgnoringId(c, type, id) == ContainerDeleteType(c, type)

\* Container.delete(type, id)
ContainerDelete(c, type, id) ==
  LET g == ContainerGetSet(c, type)
      r == SetDelete(g.ret, id)
  IN [data |-> MapSet(g.data, type, r.data), ret |-> r.ret]

\* the loop of a Container.deleteIf that stops asking once a category has
\* reported a deletion
RECURSIVE ContainerDeleteIfFirstLoop(_, _, _, _)
ContainerDeleteIfFirstLoop(c, i, p, deleted) ==
  IF i > Len(c) \/ deleted # 0 THEN [data |-> c, ret |-> deleted]
  ELSE LET r == SetDeleteIf(c[i].value, c[i].key, p)
       IN ContainerDeleteIfFirstLoop([c EXCEPT ![i].value = r.data], i + 1, p, r.ret)

ContainerDeleteIfFirst(c, p) == ContainerDeleteIfFirstLoop(c, 1, p, 0)

\* the loop of Container.deleteIf, from category i on
RECURSIVE ContainerDeleteIfLoop(_, _, _, _)
ContainerDeleteIfLoop(c, i, p, deleted) ==
  IF i > Len(c) THEN [data |-> c, ret |-> deleted]
  ELSE LET r == SetDeleteIf(c[i].value, c[i].key, p)
       IN ContainerDeleteIfLoop([c EXCEPT ![i].value = r.data], i + 1, p, deleted + r.ret)

\* Container.deleteIf
ContainerDeleteIf(c, p) == ContainerDeleteIfLoop(c, 1, p, 0)

\* Container.filter
RECURSIVE ContainerFilterLoop(_, _, _)
ContainerFilterLoop(c, i, p) ==
  IF i > Len(c) THEN <<>>
  ELSE SetFilter(c[i].value, c[i].key, p) \o ContainerFilterLoop(c, i + 1, p)

ContainerFilter(c, p) == ContainerFilterLoop(c, 1, p)

\* Container.forEach: the calls of the callback
RECURSIVE ContainerForEachLoop(_, _)
ContainerForEachLoop(c, i) ==
  IF i > Len(c) THEN <<>>
  ELSE SetForEach(c[i].value, c[i].key) \o ContainerForEachLoop(c, i + 1)

ContainerForEach(c) == ContainerForEachLoop(c, 1)

\* Container.find
RECURSIVE ContainerFindLoop(_, _, _)
ContainerFindLoop(c, i, p) ==
  IF i > Len(c) THEN Undefined
  ELSE LET value == SetFind(c[i].value, c[i].key, p)
       IN IF value # Undefined THEN value ELSE ContainerFindLoop(c, i + 1, p)

ContainerFind(c, p) == ContainerFindLoop(c, 1, p)

\* a ReferenceContainer.get that tests startsWith for ===
ReferenceContainerGetStartsWith(c, reference) == ContainerFilter(c, StartPred(reference))

\* ReferenceContainer.get
ReferenceContainerGet(c, reference) == ContainerFilter(c, RefPred(reference))

\* ReferenceContainer.delete
ReferenceContainerDelete(c, reference) == ContainerDeleteIf(c, RefPred(reference))

\* ReferenceContainer.deleteStartsWith
ReferenceContainerDeleteStartsWith(c, reference) ==
  ContainerDeleteIf(c, StartPred(reference))

(***************************************************************************)
(* Database: _containers is an ordered map root -> Container.  A container *)
(* is named by its slot, the position of its root in registration order:   *)
(* newContainer and getContainer return the slot of the container they     *)
(* hand out.                                                               *)
(***************************************************************************)
\* a newContainer that registers the root anew, after the other roots
DatabaseNewContainerLast(d, baseReference) ==
  Append(MapDelete(d, baseReference), [key |-> baseReference, value |-> NewContainer])

\* a newContainer that keeps the container of a root that is bound
DatabaseNewContainerKeep(d, baseReference) ==
  IF MapHas(d, baseReference) THEN d ELSE MapSet(d, baseReference, NewContainer)

\* Database.newContainer
DatabaseNewContainer(d, baseReference) == MapSet(d, baseReference, NewContainer)

\* a getContainer that binds a new container whether or not the root is bound
DatabaseGetContainerAlwaysNew(d, baseReference) == MapSet(d, baseReference, NewContainer)

\* Database.getContainer
DatabaseGetContainer(d, baseReference) ==
  IF MapHas(d, baseReference) THEN d ELSE MapSet(d, baseReference, NewContainer)

\* the loop of Database.findContainers, from slot i on
RECURSIVE FindContainersLoop(_, _, _, _)
FindContainersLoop(d, i, reference, containers) ==
  IF i > Len(d) THEN containers
  ELSE IF StartsWith(reference, d[i].key)
       THEN FindContainersLoop(d, i + 1, reference, Append(containers, i))
       ELSE FindContainersLoop(d, i + 1, reference, containers)

\* Database.findContainers: the slots found, in order
FindContainers(d, reference) == FindContainersLoop(d, 1, reference, <<>>)

\* the loop of Database.findContainer, from slot i on: the slot found, 0 for undefined
RECURSIVE FindContainerLoop(_, _, _)
FindContainerLoop(d, i, reference) ==
  IF i > Len(d) THEN 0
  ELSE IF StartsWith(reference, d[i].key) THEN i
  ELSE FindContainerLoop(d, i + 1, reference)

\* a findContainer that goes on after the first match and returns the last one
FindContainerLast(d, reference) ==
  LET found == FindContainers(d, reference)
  IN IF found = <<>> THEN 0 ELSE found[Len(found)]

\* Database.findContainer
FindContainer(d, reference) == FindContainerLoop(d, 1, reference)

\* a Database.add that takes its container from getContainer(reference)
DatabaseAddGetContainer(d, type, object) ==
  LET created == DatabaseGetContainer(d, object.reference)
      container == KeyIndex(created, object.reference)
  IN [data |-> [created EXCEPT ![container].value = ContainerAdd(@, type, object).data],
      ret |-> TRUE]

\* the loop of a Database.add that adds to every container found
RECURSIVE DatabaseAddEveryLoop(_, _, _, _)
DatabaseAddEveryLoop(d, containers, type, object) ==
  IF containers = <<>> THEN d
  ELSE DatabaseAddEveryLoop(
         [d EXCEPT ![Head(containers)].value = ContainerAdd(@, type, object).data],
         Tail(containers), type, object)

\* a Database.add that takes findContainers for findContainer
DatabaseAddEvery(d, type, object) ==
  LET containers == FindContainers(d, object.reference)
  IN [data |-> DatabaseAddEveryLoop(d, containers, type, object),
      ret |-> containers # <<>>]

\* Database.add and TypeDatabase.add: [data, ret]
DatabaseAdd(d, type, object) ==
  LET container == FindContainer(d, object.reference)
  IN IF container # 0
     THEN [data |-> [d EXCEPT ![container].value = ContainerAdd(@, type, object).data],
           ret |-> TRUE]
     ELSE [data |-> d, ret |-> FALSE]

\* a Database.find that goes through the containers from the last one
RECURSIVE DatabaseFindBackLoop(_, _, _)
DatabaseFindBackLoop(d, i, p) ==
  IF i < 1 THEN Undefined
  ELSE LET object == ContainerFind(d[i].value, p)
       IN IF object # Undefined THEN object ELSE DatabaseFindBackLoop(d, i - 1, p)

DatabaseFindBack(d, p) == DatabaseFindBackLoop(d, Len(d), p)

\* Database.find
RECURSIVE DatabaseFindLoop(_, _, _)
DatabaseFindLoop(d, i, p) ==
  IF i > Len(d) THEN Undefined
  ELSE LET object == ContainerFind(d[i].value, p)
       IN IF object # Undefined THEN object ELSE DatabaseFindLoop(d, i + 1, p)

DatabaseFind(d, p) == DatabaseFindLoop(d, 1, p)

\* a Database.filter that goes through the containers from the last one
RECURSIVE DatabaseFilterBackLoop(_, _, _)
DatabaseFilterBackLoop(d, i, p) ==
  IF i < 1 THEN <<>>
  ELSE ContainerFilter(d[i].value, p) \o DatabaseFilterBackLoop(d, i - 1, p)

DatabaseFilterBack(d, p) == DatabaseFilterBackLoop(d, Len(d), p)

\* Database.filter
RECURSIVE DatabaseFilterLoop(_, _, _)
DatabaseFilterLoop(d, i, p) ==
  IF i > Len(d) THEN <<>>
  ELSE ContainerFilter(d[i].value, p) \o DatabaseFilterLoop(d, i + 1, p)

DatabaseFilter(d, p) == DatabaseFilterLoop(d, 1, p)

\* Database.forEach: the calls of the callback
RECURSIVE DatabaseForEachLoop(_, _)
DatabaseForEachLoop(d, i) ==
  IF i > Len(d) THEN <<>>
  ELSE ContainerForEach(d[i].value) \o DatabaseForEachLoop(d, i + 1)

DatabaseForEach(d) == DatabaseForEachLoop(d, 1)

\* the loop of Database.deleteIf, from slot i on; "deleted ||= f()" calls f
\* only while deleted is still 0
RECURSIVE DatabaseDeleteIfLoop(_, _, _, _)
DatabaseDeleteIfLoop(d, i, p, deleted) ==
  IF i > Len(d) THEN [data |-> d, ret |-> deleted]
  ELSE IF deleted # 0 THEN DatabaseDeleteIfLoop(d, i + 1, p, deleted)
  ELSE LET r == ContainerDeleteIf(d[i].value, p)
       IN DatabaseDeleteIfLoop([d EXCEPT ![i].value = r.data], i + 1, p, r.ret)

\* Database.deleteIf: [data, ret]
DatabaseDeleteIf(d, p) == DatabaseDeleteIfLoop(d, 1, p, 0)

\* the loop of a TypeDatabase.sets that leaves out the containers that have no
\* Set of the category yet
RECURSIVE TypeDatabaseSetsBoundLoop(_, _, _, _)
TypeDatabaseSetsBoundLoop(d, i, type, sets) ==
  IF i > Len(d) THEN [data |-> d, ret |-> sets]
  ELSE IF MapHas(d[i].value, type)
       THEN TypeDatabaseSetsBoundLoop(d, i + 1, type, Append(sets, MapGet(d[i].value, type)))
       ELSE TypeDatabaseSetsBoundLoop(d, i + 1, type, sets)

TypeDatabaseSetsBound(d, type) == TypeDatabaseSetsBoundLoop(d, 1, type, <<>>)

\* the loop of TypeDatabase.sets, from slot i on: container.get(type) creates
\* the category in every container
RECURSIVE TypeDatabaseSetsLoop(_, _, _, _)
TypeDatabaseSetsLoop(d, i, type, sets) ==
  IF i > Len(d) THEN [data |-> d, ret |-> sets]
  ELSE LET g == ContainerGetSet(d[i].value, type)
       IN TypeDatabaseSetsLoop([d EXCEPT ![i].value = g.data], i + 1, type,
            Append(sets, g.ret))

\* TypeDatabase.sets: [data, ret], ret the Sets returned, in order
TypeDatabaseSets(d, type) == TypeDatabaseSetsLoop(d, 1, type, <<>>)

\* the loop of TypeDatabase.get, from slot i on: container.get(type, id)
\* creates the category in every container
RECURSIVE TypeDatabaseGetLoop(_, _, _, _, _)
TypeDatabaseGetLoop(d, i, type, id, results) ==
  IF i > Len(d) THEN [data |-> d, ret |-> results]
  ELSE LET g == ContainerGet(d[i].value, type, id)
           objects == g.ret
       IN TypeDatabaseGetLoop([d EXCEPT ![i].value = g.data], i + 1, type, id,
            IF objects # Undefined THEN results \o objects.values ELSE results)

\* the loop of TypeDatabase.find, from slot i on: container.get(type) binds
\* the category in every container it asks
RECURSIVE TypeDatabaseFindLoop(_, _, _, _)
TypeDatabaseFindLoop(d, i, type, p) ==
  IF i > Len(d) THEN [data |-> d, ret |-> Undefined]
  ELSE LET g == ContainerGetSet(d[i].value, type)
           bound == [d EXCEPT ![i].value = g.data]
           object == SetFind(g.ret, type, p)
       IN IF object # Undefined
          THEN [data |-> bound, ret |-> object]
          ELSE TypeDatabaseFindLoop(bound, i + 1, type, p)

\* TypeDatabase.find: [data, ret]
TypeDatabaseFind(d, type, p) == TypeDatabaseFindLoop(d, 1, type, p)

\* the loop of TypeDatabase.filter, from slot i on
RECURSIVE TypeDatabaseFilterLoop(_, _, _, _, _)
TypeDatabaseFilterLoop(d, i, type, p, results) ==
  IF i > Len(d) THEN [data |-> d, ret |-> results]
  ELSE LET g == ContainerGetSet(d[i].value, type)
       IN TypeDatabaseFilterLoop([d EXCEPT ![i].value = g.data], i + 1, type, p,
                                 results \o SetFilter(g.ret, type, p))

\* TypeDatabase.filter: [data, ret]
TypeDatabaseFilter(d, type, p) == TypeDatabaseFilterLoop(d, 1, type, p, <<>>)

\* the loop of TypeDatabase.forEach, from slot i on: the calls of the callback
RECURSIVE TypeDatabaseForEachLoop(_, _, _, _)
TypeDatabaseForEachLoop(d, i, type, calls) ==
  IF i > Len(d) THEN [data |-> d, ret |-> calls]
  ELSE LET g == ContainerGetSet(d[i].value, type)
       IN TypeDatabaseForEachLoop([d EXCEPT ![i].value = g.data], i + 1, type,
                                  calls \o SetForEach(g.ret, type))

\* TypeDatabase.forEach: [data, ret]
TypeDatabaseForEach(d, type) == TypeDatabaseForEachLoop(d, 1, type, <<>>)

\* TypeDatabase.get: [data, ret]
TypeDatabaseGet(d, type, id) == TypeDatabaseGetLoop(d, 1, type, id, <<>>)

\* the loop of TypeDatabase.delete, from slot i on; "deleted ||= f()" calls f
\* only while deleted is still false
RECURSIVE TypeDatabaseDeleteLoop(_, _, _, _, _)
TypeDatabaseDeleteLoop(d, i, type, id, deleted) ==
  IF i > Len(d) THEN [data |-> d, ret |-> deleted]
  ELSE IF deleted THEN TypeDatabaseDeleteLoop(d, i + 1, type, id, deleted)
  ELSE LET r == ContainerDelete(d[i].value, type, id)
       IN TypeDatabaseDeleteLoop([d EXCEPT ![i].value = r.data], i + 1, type, id, r.ret)

\* TypeDatabase.delete: [data, ret]
TypeDatabaseDelete(d, type, id) == TypeDatabaseDeleteLoop(d, 1, type, id, FALSE)

\* the loop of ReferenceDatabase.get over the slots found
RECURSIVE ReferenceDatabaseGetLoop(_, _, _)
ReferenceDatabaseGetLoop(d, containers, reference) ==
  IF containers = <<>> THEN <<>>
  ELSE ReferenceContainerGet(d[Head(containers)].value, reference)
         \o ReferenceDatabaseGetLoop(d, Tail(containers), reference)

\* ReferenceDatabase.get
ReferenceDatabaseGet(d, reference) ==
  ReferenceDatabaseGetLoop(d, FindContainers(d, reference), reference)

\* the loop of ReferenceDatabase.delete (prefix = FALSE) and of
\* ReferenceDatabase.deleteStartsWith (prefix = TRUE) over the slots found
RECURSIVE ReferenceDatabaseDeleteLoop(_, _, _, _, _)
ReferenceDatabaseDeleteLoop(d, containers, reference, prefix, deleted) ==
  IF containers = <<>> THEN [data |-> d, ret |-> deleted]
  ELSE IF deleted # 0
       THEN ReferenceDatabaseDeleteLoop(d, Tail(containers), reference, prefix, deleted)
  ELSE LET i == Head(containers)
           r == IF prefix
                THEN ReferenceContainerDeleteStartsWith(d[i].value, reference)
                ELSE ReferenceContainerDelete(d[i].value, reference)
       IN ReferenceDatabaseDeleteLoop([d EXCEPT ![i].value = r.data], Tail(containers),
            reference, prefix, r.ret)

\* ReferenceDatabase.delete: [data, ret]
ReferenceDatabaseDelete(d, reference) ==
  ReferenceDatabaseDeleteLoop(d, FindContainers(d, reference), reference, FALSE, 0)

\* ReferenceDatabase.deleteStartsWith: [data, ret]
ReferenceDatabaseDeleteStartsWith(d, reference) ==
  ReferenceDatabaseDeleteLoop(d, FindContainers(d, reference), reference, TRUE, 0)

(***************************************************************************)
(* Operations on the stand-alone Set.                                      *)
(***************************************************************************)
NoOp == [op |-> "none", arg |-> Undefined, ret |-> Undefined]

Init ==
  /\ set = NewSet
  /\ col = <<>>
  /\ db = <<>>
  /\ last = NoOp
  /\ prev = NoOp
  /\ steps = 0

SetStep(op, arg, ret, data) ==
  /\ set' = data
  /\ last' = [op |-> op, arg |-> arg, ret |-> ret]
  /\ prev' = last
  /\ UNCHANGED <<col, db, steps>>

DoSetAdd == \E value \in Entries :
  SetStep("Set.add", value, Undefined, SetAdd(set, value))

DoSetSet == \E id \in Ids : \E value \in SetLists(id) :
  SetStep("Set.set", [id |-> id, value |-> value], Undefined, SetSet(set, id, value))

DoSetDelete == \E id \in Ids :
  LET r == SetDelete(set, id) IN SetStep("Set.delete", id, r.ret, r.data)

DoSetDeleteIf == \E p \in SetPreds :
  LET r == SetDeleteIf(set, Undefined, p) IN SetStep("Set.deleteIf", p, r.ret, r.data)

\* a Set that is written through add, delete and deleteIf only
NextSetAdd == DoSetAdd \/ DoSetDelete \/ DoSetDeleteIf

SpecSetAdd == Init /\ [][NextSetAdd]_vars

\* a Set under all its writing operations
NextSet == DoSetAdd \/ DoSetSet \/ DoSetDelete \/ DoSetDeleteIf

SpecSet == Init /\ [][NextSet]_vars

(***************************************************************************)
(* IObject.equals, applied to two objects.                                 *)
(***************************************************************************)
\* the objects compared: bare IObjects and entries that carry a payload
IObjects == [id : Ids, reference : References] \cup Entries

DoEquals == \E a \in IObjects : \E b \in IObjects :
  /\ last' = [op |-> "IObject.equals", arg |-> [a |-> a, b |-> b], ret |-> IObjectEquals(a, b)]
  /\ UNCHANGED <<set, col, db, prev, steps>>

NextEquals == DoEquals

SpecEquals == Init /\ [][NextEquals]_vars

(***************************************************************************)
(* Operations on the stand-alone Container.                                *)
(***************************************************************************)
ContainerStep(op, arg, r) ==
  /\ steps < MaxContainerSteps
  /\ steps' = steps + 1
  /\ col' = r.data
  /\ last' = [op |-> op, arg |-> arg, ret |-> r.ret]
  /\ UNCHANGED <<set, db, prev>>

DoContainerAdd == \E type \in Types : \E value \in Objects :
  ContainerStep("Container.add", [type |-> type, value |-> value],
                ContainerAdd(col, type, value))

DoContainerGetSet == \E type \in Types :
  ContainerStep("Container.get(type)", [type |-> type], ContainerGetSet(col, type))

DoContainerGet == \E type \in Types : \E id \in Ids :
  ContainerStep("Container.get", [type |-> type, id |-> id], ContainerGet(col, type, id))

DoContainerHas == \E type \in Types : \E id \in Ids :
  ContainerStep("Container.has", [type |-> type, id |-> id], ContainerHas(col, type, id))

DoContainerDeleteType == \E type \in Types :
  ContainerStep("Container.delete(type)", [type |-> type], ContainerDeleteType(col, type))

DoContainerDelete == \E type \in Types : \E id \in Ids :
  ContainerStep("Container.delete", [type |-> type, id |-> id],
                ContainerDelete(col, type, id))

DoContainerDeleteIf == \E p \in TypePreds :
  ContainerStep("Container.deleteIf", p, ContainerDeleteIf(col, p))

DoReferenceContainerDelete == \E reference \in References :
  ContainerStep("ReferenceContainer.delete", reference,
                ReferenceContainerDelete(col, reference))

DoReferenceContainerDeleteStartsWith == \E reference \in Prefixes :
  ContainerStep("ReferenceContainer.deleteStartsWith", reference,
                ReferenceContainerDeleteStartsWith(col, reference))

DoReferenceContainerGet == \E reference \in Prefixes :
  ContainerStep("ReferenceContainer.get", reference,
                [data |-> col, ret |-> ReferenceContainerGet(col, reference)])

\* container.get(type).byReference.get(reference)
DoReferenceSetGet == \E type \in Types : \E reference \in Prefixes :
  ContainerStep("ReferenceSet.get", [type |-> type, reference |-> reference],
                [data |-> ContainerGetSet(col, type).data,
                 ret |-> ReferenceSetGet(ContainerGetSet(col, type).ret, type, reference)])

NextContainer ==
  \/ DoReferenceContainerGet
  \/ DoReferenceSetGet
  \/ DoContainerAdd
  \/ DoContainerGetSet
  \/ DoContainerGet
  \/ DoContainerHas
  \/ DoContainerDeleteType
  \/ DoContainerDelete
  \/ DoContainerDeleteIf
  \/ DoReferenceContainerDelete
  \/ DoReferenceContainerDeleteStartsWith

SpecContainer == Init /\ [][NextContainer]_vars

(***************************************************************************)
(* Operations on the Database, through its own interface: no container is  *)
(* written directly.                                                       *)
(***************************************************************************)
DatabaseStep(op, arg, r) ==
  /\ steps < MaxSteps
  /\ steps' = steps + 1
  /\ db' = r.data
  /\ last' = [op |-> op, arg |-> arg, ret |-> r.ret]
  /\ UNCHANGED <<set, col, prev>>

DoNewContainer == \E baseReference \in Roots :
  DatabaseStep("Database.newContainer", baseReference,
               [data |-> DatabaseNewContainer(db, baseReference),
                ret |-> KeyIndex(DatabaseNewContainer(db, baseReference), baseReference)])

DoGetContainer == \E baseReference \in Roots :
  DatabaseStep("Database.getContainer", baseReference,
               [data |-> DatabaseGetContainer(db, baseReference),
                ret |-> KeyIndex(DatabaseGetContainer(db, baseReference), baseReference)])

DoDatabaseAdd == \E type \in Types : \E object \in Objects :
  DatabaseStep("Database.add", [type |-> type, object |-> object],
               DatabaseAdd(db, type, object))

DoTypeDatabaseAdd == \E type \in Types : \E object \in Objects :
  DatabaseStep("TypeDatabase.add", [type |-> type, object |-> object],
               DatabaseAdd(db, type, object))

DoDatabaseDeleteIf == \E p \in TypePreds :
  DatabaseStep("Database.deleteIf", p, DatabaseDeleteIf(db, p))

DoTypeDatabaseGet == \E type \in Types : \E id \in Ids :
  DatabaseStep("TypeDatabase.get", [type |-> type, id |-> id],
               TypeDatabaseGet(db, type, id))

DoTypeDatabaseSets == \E type \in Types :
  DatabaseStep("TypeDatabase.sets", type, TypeDatabaseSets(db, type))

DoTypeDatabaseDelete == \E type \in Types : \E id \in Ids :
  DatabaseStep("TypeDatabase.delete", [type |-> type, id |-> id],
               TypeDatabaseDelete(db, type, id))

DoReferenceDatabaseDelete == \E reference \in References :
  DatabaseStep("ReferenceDatabase.delete", reference,
               ReferenceDatabaseDelete(db, reference))

DoReferenceDatabaseDeleteStartsWith == \E reference \in Prefixes :
  DatabaseStep("ReferenceDatabase.deleteStartsWith", reference,
               ReferenceDatabaseDeleteStartsWith(db, reference))

NextDatabase ==
  \/ DoNewContainer
  \/ DoGetContainer
  \/ DoDatabaseAdd
  \/ DoTypeDatabaseAdd
  \/ DoDatabaseDeleteIf
  \/ DoTypeDatabaseGet
  \/ DoTypeDatabaseSets
  \/ DoTypeDatabaseDelete
  \/ DoReferenceDatabaseDelete
  \/ DoReferenceDatabaseDeleteStartsWith

SpecDatabase == Init /\ [][NextDatabase]_vars

(***************************************************************************)
(* Operations on a Database whose containers are also written directly:    *)
(* getContainer hands out the Container, and the caller adds to it.        *)
(***************************************************************************)
\* database.getContainer(baseReference).add(type, value)
GetContainerAdd(d, baseReference, type, value) ==
  LET bound == DatabaseGetContainer(d, baseReference)
      container == KeyIndex(bound, baseReference)
  IN [data |-> [bound EXCEPT ![container].value = ContainerAdd(@, type, value).data],
      ret |-> Undefined]

DirectStep(op, arg, r) ==
  /\ steps < MaxDirectSteps
  /\ steps' = steps + 1
  /\ db' = r.data
  /\ last' = [op |-> op, arg |-> arg, ret |-> r.ret]
  /\ UNCHANGED <<set, col, prev>>

DoGetContainerAdd == \E baseReference \in Roots : \E type \in Types : \E value \in Objects :
  DirectStep("Database.getContainer.add",
             [baseReference |-> baseReference, type |-> type, value |-> value],
             GetContainerAdd(db, baseReference, type, value))

DoDirectNewContainer == \E baseReference \in Roots :
  DirectStep("Database.newContainer", baseReference,
             [data |-> DatabaseNewContainer(db, baseReference),
              ret |-> KeyIndex(DatabaseNewContainer(db, baseReference), baseReference)])

DoDirectDatabaseAdd == \E type \in Types : \E object \in Objects :
  DirectStep("Database.add", [type |-> type, object |-> object],
             DatabaseAdd(db, type, object))

DoDirectReferenceDatabaseDelete == \E reference \in References :
  DirectStep("ReferenceDatabase.delete", reference,
             ReferenceDatabaseDelete(db, reference))

DoDirectReferenceDatabaseDeleteStartsWith == \E reference \in Prefixes :
  DirectStep("ReferenceDatabase.deleteStartsWith", reference,
             ReferenceDatabaseDeleteStartsWith(db, reference))

NextDatabaseDirect ==
  \/ DoGetContainerAdd
  \/ DoDirectNewContainer
  \/ DoDirectDatabaseAdd
  \/ DoDirectReferenceDatabaseDelete
  \/ DoDirectReferenceDatabaseDeleteStartsWith

SpecDatabaseDirect == Init /\ [][NextDatabaseDirect]_vars

(***************************************************************************)
(* Operations on a Database that is filled and traversed: its categories   *)
(* are TraversalTypes.                                                     *)
(***************************************************************************)
\* the objects added to the Database that is traversed
TraversalObjects == {o \in Objects : o.payload = "p1" /\ (o.id = "x" \/ o.reference = <<"a", "b">>)}

\* the predicates Database.filter is called with
TraversalPreds ==
  {IdPred(i) : i \in Ids} \cup {TypePred(t) : t \in TraversalTypes} \cup {AllPred}

TraversalStep(op, arg, r) ==
  /\ steps < MaxTraversalSteps
  /\ steps' = steps + 1
  /\ db' = r.data
  /\ last' = [op |-> op, arg |-> arg, ret |-> r.ret]
  /\ UNCHANGED <<set, col, prev>>

DoTraversalNewContainer == \E baseReference \in Roots :
  TraversalStep("Database.newContainer", baseReference,
                [data |-> DatabaseNewContainer(db, baseReference),
                 ret |-> KeyIndex(DatabaseNewContainer(db, baseReference), baseReference)])

DoTraversalAdd == \E type \in TraversalTypes : \E object \in TraversalObjects :
  TraversalStep("Database.add", [type |-> type, object |-> object],
                DatabaseAdd(db, type, object))

DoDatabaseFilter == \E p \in TraversalPreds :
  TraversalStep("Database.filter", p, [data |-> db, ret |-> DatabaseFilter(db, p)])

DoDatabaseForEach ==
  TraversalStep("Database.forEach", Undefined, [data |-> db, ret |-> DatabaseForEach(db)])

NextTraversal ==
  \/ DoTraversalNewContainer
  \/ DoTraversalAdd
  \/ DoDatabaseFilter
  \/ DoDatabaseForEach

SpecTraversal == Init /\ [][NextTraversal]_vars

(***************************************************************************)
(* Operations on a Database that is filled and searched, as a whole and    *)
(* through its byType views.                                               *)
(***************************************************************************)
\* the predicates TypeDatabase.find and TypeDatabase.filter are called with
ViewPreds == {IdPred(i) : i \in Ids} \cup {AllPred}

DoFindNewContainer == \E baseReference \in Roots :
  TraversalStep("Database.newContainer", baseReference,
                [data |-> DatabaseNewContainer(db, baseReference),
                 ret |-> KeyIndex(DatabaseNewContainer(db, baseReference), baseReference)])

DoFindAdd == \E type \in Types : \E object \in TraversalObjects :
  TraversalStep("Database.add", [type |-> type, object |-> object],
                DatabaseAdd(db, type, object))

DoDatabaseFind == \E p \in TypePreds :
  TraversalStep("Database.find", p, [data |-> db, ret |-> DatabaseFind(db, p)])

DoTypeDatabaseFind == \E type \in Types : \E p \in ViewPreds :
  TraversalStep("TypeDatabase.find", [type |-> type, p |-> p],
                TypeDatabaseFind(db, type, p))

DoTypeDatabaseFilter == \E type \in Types : \E p \in ViewPreds :
  TraversalStep("TypeDatabase.filter", [type |-> type, p |-> p],
                TypeDatabaseFilter(db, type, p))

NextFind ==
  \/ DoFindNewContainer
  \/ DoFindAdd
  \/ DoDatabaseFind
  \/ DoTypeDatabaseFind
  \/ DoTypeDatabaseFilter

SpecFind == Init /\ [][NextFind]_vars

(***************************************************************************)
(* Queries on a Database, on the containers it hands out (containers())    *)
(* and on the Sets these hold.                                             *)
(***************************************************************************)
\* a query that writes nothing, and a query of the container in slot i
Pure(ret) == [data |-> db, ret |-> ret]
InSlot(i, r) == [data |-> [db EXCEPT ![i].value = r.data], ret |-> r.ret]

\* the slots of the database, and the slots and categories that have a Set
Slots == 1..Len(db)
BoundSets == {x \in Slots \X Types : MapHas(db[x[1]].value, x[2])}
SetIn(x) == MapGet(db[x[1]].value, x[2])

DoQueryNewContainer == \E baseReference \in Roots :
  TraversalStep("Database.newContainer", baseReference,
                [data |-> DatabaseNewContainer(db, baseReference),
                 ret |-> KeyIndex(DatabaseNewContainer(db, baseReference), baseReference)])

DoQueryAdd == \E type \in Types : \E object \in TraversalObjects :
  TraversalStep("Database.add", [type |-> type, object |-> object],
                DatabaseAdd(db, type, object))

DoQueryDatabaseFind == \E p \in ViewPreds :
  TraversalStep("Database.find", p, Pure(DatabaseFind(db, p)))

DoQueryDatabaseFilter == \E p \in ViewPreds :
  TraversalStep("Database.filter", p, Pure(DatabaseFilter(db, p)))

DoQueryDatabaseForEach ==
  TraversalStep("Database.forEach", Undefined, Pure(DatabaseForEach(db)))

DoQueryFindContainer == \E reference \in References :
  TraversalStep("Database.findContainer", reference, Pure(FindContainer(db, reference)))

DoQueryFindContainers == \E reference \in References :
  TraversalStep("Database.findContainers", reference, Pure(FindContainers(db, reference)))

DoQueryReferenceDatabaseGet == \E reference \in References :
  TraversalStep("ReferenceDatabase.get", reference, Pure(ReferenceDatabaseGet(db, reference)))

DoQueryTypeDatabaseGet == \E type \in Types : \E id \in Ids :
  TraversalStep("TypeDatabase.get", [type |-> type, id |-> id], TypeDatabaseGet(db, type, id))

DoQueryTypeDatabaseFind == \E type \in Types : \E p \in ViewPreds :
  TraversalStep("TypeDatabase.find", [type |-> type, p |-> p], TypeDatabaseFind(db, type, p))

DoQueryTypeDatabaseFilter == \E type \in Types : \E p \in ViewPreds :
  TraversalStep("TypeDatabase.filter", [type |-> type, p |-> p], TypeDatabaseFilter(db, type, p))

DoQueryTypeDatabaseForEach == \E type \in Types :
  TraversalStep("TypeDatabase.forEach", type, TypeDatabaseForEach(db, type))

DoQueryTypeDatabaseSets == \E type \in Types :
  TraversalStep("TypeDatabase.sets", type, TypeDatabaseSets(db, type))

DoQueryContainerGetSet == \E i \in Slots : \E type \in Types :
  TraversalStep("Container.get(type)", [slot |-> i, type |-> type],
                InSlot(i, ContainerGetSet(db[i].value, type)))

DoQueryContainerGet == \E i \in Slots : \E type \in Types : \E id \in Ids :
  TraversalStep("Container.get", [slot |-> i, type |-> type, id |-> id],
                InSlot(i, ContainerGet(db[i].value, type, id)))

DoQueryContainerHas == \E i \in Slots : \E type \in Types : \E id \in Ids :
  TraversalStep("Container.has", [slot |-> i, type |-> type, id |-> id],
                InSlot(i, ContainerHas(db[i].value, type, id)))

DoQueryContainerFind == \E i \in Slots : \E p \in ViewPreds :
  TraversalStep("Container.find", [slot |-> i, p |-> p], Pure(ContainerFind(db[i].value, p)))

DoQueryContainerFilter == \E i \in Slots : \E p \in ViewPreds :
  TraversalStep("Container.filter", [slot |-> i, p |-> p], Pure(ContainerFilter(db[i].value, p)))

DoQueryContainerForEach == \E i \in Slots :
  TraversalStep("Container.forEach", [slot |-> i], Pure(ContainerForEach(db[i].value)))

DoQueryReferenceContainerGet == \E i \in Slots : \E reference \in References :
  TraversalStep("ReferenceContainer.get", [slot |-> i, reference |-> reference],
                Pure(ReferenceContainerGet(db[i].value, reference)))

DoQuerySetGet == \E x \in BoundSets : \E id \in Ids :
  TraversalStep("Set.get", [set |-> x, id |-> id], Pure(SetGet(SetIn(x), id)))

DoQuerySetHas == \E x \in BoundSets : \E id \in Ids :
  TraversalStep("Set.has", [set |-> x, id |-> id], Pure(SetHas(SetIn(x), id)))

DoQuerySetFind == \E x \in BoundSets : \E p \in ViewPreds :
  TraversalStep("Set.find", [set |-> x, p |-> p], Pure(SetFind(SetIn(x), x[2], p)))

DoQuerySetFilter == \E x \in BoundSets : \E p \in ViewPreds :
  TraversalStep("Set.filter", [set |-> x, p |-> p], Pure(SetFilter(SetIn(x), x[2], p)))

DoQuerySetForEach == \E x \in BoundSets :
  TraversalStep("Set.forEach", [set |-> x], Pure(SetForEach(SetIn(x), x[2])))

NextQueries ==
  \/ DoQueryNewContainer
  \/ DoQueryAdd
  \/ DoQueryDatabaseFind
  \/ DoQueryDatabaseFilter
  \/ DoQueryDatabaseForEach
  \/ DoQueryFindContainer
  \/ DoQueryFindContainers
  \/ DoQueryReferenceDatabaseGet
  \/ DoQueryTypeDatabaseGet
  \/ DoQueryTypeDatabaseFind
  \/ DoQueryTypeDatabaseFilter
  \/ DoQueryTypeDatabaseForEach
  \/ DoQueryTypeDatabaseSets
  \/ DoQueryContainerGetSet
  \/ DoQueryContainerGet
  \/ DoQueryContainerHas
  \/ DoQueryContainerFind
  \/ DoQueryContainerFilter
  \/ DoQueryContainerForEach
  \/ DoQueryReferenceContainerGet
  \/ DoQuerySetGet
  \/ DoQuerySetHas
  \/ DoQuerySetFind
  \/ DoQuerySetFilter
  \/ DoQuerySetForEach

SpecQueries == Init /\ [][NextQueries]_vars

(***************************************************************************)
(* Properties of the Set.                                                  *)
(***************************************************************************)
\* the list stored for id, empty when the id is missing
Group(s, id) == IF MapHas(s, id) THEN MapGet(s, id) ELSE <<>>

\* the positions in the group of value.id that hold an entry of value's id and reference
Places(s, value) ==
  {i \in 1..Len(Group(s, value.id)) : IObjectEquals(Group(s, value.id)[i], value)}

\* value stands before other in the list
Before(list, value, other) ==
  \E i \in 1..Len(list) : \E j \in 1..Len(list) :
    i < j /\ list[i] = value /\ list[j] = other

\* the last two operations were Set.add, of prev.arg and then of last.arg
TwoAdds == last.op = "Set.add" /\ prev.op = "Set.add"

\* C1 as stated: in any Set state, after add of (X,R) and then add of (X,R)
\* again, get(X) holds exactly one entry for (X,R), the one added second.
C1_AnyState ==
  (TwoAdds /\ IObjectEquals(prev.arg, last.arg)) =>
    /\ Cardinality(Places(set, last.arg)) = 1
    /\ \A i \in Places(set, last.arg) : Group(set, last.arg.id)[i] = last.arg

\* C1, amended: when get(X) holds at most one entry of reference R, then after
\* add of (X,R) and add of (X,R) again get(X) holds exactly one entry for (X,R),
\* the one added second.  An add leaves at most one such entry exactly when
\* there was at most one before it, so the condition is the same before the
\* two adds and between them.
C1_IdempotentOverwrite ==
  [][ /\ last'.op = "Set.add" =>
           (Cardinality(Places(set, last'.arg)) <= 1
              <=> Cardinality(Places(set', last'.arg)) = 1)
      /\ ( /\ last.op = "Set.add"
           /\ last'.op = "Set.add"
           /\ IObjectEquals(last.arg, last'.arg)
           /\ Cardinality(Places(set, last'.arg)) <= 1 ) =>
           /\ Cardinality(Places(set', last'.arg)) = 1
           /\ \A i \in Places(set', last'.arg) : Group(set', last'.arg.id)[i] = last'.arg
    ]_vars

\* two adds of the same id and reference with different payloads have happened
C1_Witness ==
  /\ TwoAdds
  /\ IObjectEquals(prev.arg, last.arg)
  /\ prev.arg.payload # last.arg.payload
  /\ Group(set, last.arg.id) = <<last.arg>>

\* C2: in a Set written by add, delete and deleteIf only, no id group holds two
\* entries with the same reference.
C2_NoDuplicateReference ==
  \A k \in 1..Len(set) :
    \A i \in 1..Len(set[k].value) : \A j \in 1..Len(set[k].value) :
      set[k].value[i].reference = set[k].value[j].reference => i = j

\* a reference was added a second time to a group that holds two references
C2_Witness ==
  /\ TwoAdds
  /\ IObjectEquals(prev.arg, last.arg)
  /\ Len(Group(set, last.arg.id)) = 2

\* C3 as stated: after add of (X,R1) and then add of (X,R2), R1 # R2, get(X)
\* holds both entries, the R1 entry before the R2 entry.
C3_AlwaysInOrder ==
  (TwoAdds /\ prev.arg.id = last.arg.id /\ prev.arg.reference # last.arg.reference) =>
    Before(Group(set, last.arg.id), prev.arg, last.arg)

\* C3, amended: after add of (X,R1) and then add of (X,R2), R1 # R2, get(X)
\* holds both entries; the R1 entry stands before the R2 entry when get(X) held
\* no entry of reference R2 before the two adds (the first add stores none, so
\* that is when it holds none between them).
C3_ReferenceDistinctness ==
  [][ ( /\ last.op = "Set.add"
        /\ last'.op = "Set.add"
        /\ last.arg.id = last'.arg.id
        /\ last.arg.reference # last'.arg.reference ) =>
        LET list == Group(set', last'.arg.id)
        IN /\ \E i \in 1..Len(list) : list[i] = last.arg
           /\ \E j \in 1..Len(list) : list[j] = last'.arg
           /\ (\A i \in 1..Len(Group(set, last'.arg.id)) :
                 Group(set, last'.arg.id)[i].reference # last'.arg.reference)
                => Before(list, last.arg, last'.arg)
    ]_vars

\* two references of one id were added to an empty group, one after the other
C3_Witness ==
  /\ TwoAdds
  /\ prev.arg.id = last.arg.id
  /\ prev.arg.reference # last.arg.reference
  /\ Group(set, last.arg.id) = <<prev.arg, last.arg>>

\* C4 as stated: has(id) is true if and only if the Set holds at least one
\* entry for that id.
C4_HasIffEntry ==
  \A id \in Ids :
    SetHas(set, id) <=>
      \E k \in 1..Len(set) : \E i \in 1..Len(set[k].value) : set[k].value[i].id = id

(***************************************************************************)
(* Properties of the Container.                                            *)
(***************************************************************************)
\* the entries a container holds: [type, id, value]
ContainerStored(c) ==
  UNION {UNION {{[type |-> c[k].key, id |-> c[k].value[g].key, value |-> c[k].value[g].value[n]]
                  : n \in 1..Len(c[k].value[g].value)}
                : g \in 1..Len(c[k].value)}
         : k \in 1..Len(c)}

\* the predicate of the last byReference delete of a Container
LastReferencePred(l) ==
  IF l.op = "ReferenceContainer.delete" THEN RefPred(l.arg) ELSE StartPred(l.arg)

\* C8 as stated: after Container.byReference.delete(r) or deleteStartsWith(p),
\* byReference.get is empty for every deleted reference and has(type, id) is
\* false for every id all of whose entries the call removed.
C8_ReferenceDeleteClearsHas ==
  [][ last'.op \in {"ReferenceContainer.delete", "ReferenceContainer.deleteStartsWith"} =>
        LET p == LastReferencePred(last')
            hit(e) == PredHolds(p, e.value, e.id, e.type)
        IN /\ \A e \in ContainerStored(col) :
                hit(e) => ReferenceContainerGet(col', e.value.reference) = <<>>
           /\ \A e \in ContainerStored(col) :
                (\A o \in ContainerStored(col) : (o.type = e.type /\ o.id = e.id) => hit(o))
                  => ~ContainerHas(col', e.type, e.id).ret
    ]_vars

(***************************************************************************)
(* Properties of the Database.                                             *)
(***************************************************************************)
\* the entries a database holds: [slot, type, id, value]
Stored(d) ==
  UNION {{[slot |-> i, type |-> e.type, id |-> e.id, value |-> e.value]
           : e \in ContainerStored(d[i].value)}
         : i \in 1..Len(d)}

\* the three views return the object stored under type
InByType(d, type, object) ==
  LET objects == TypeDatabaseGet(d, type, object.id).ret
  IN \E n \in 1..Len(objects) : objects[n] = object

InByReference(d, object) ==
  LET objects == ReferenceDatabaseGet(d, object.reference)
  IN \E n \in 1..Len(objects) : objects[n] = object

InFind(d, type, object) == DatabaseFind(d, ObjectPred(type, object)) = object

Found(d, type, object) ==
  InByType(d, type, object) /\ InByReference(d, object) /\ InFind(d, type, object)

NotReturned(d, type, object) ==
  ~InByType(d, type, object) /\ ~InByReference(d, object) /\ ~InFind(d, type, object)

\* no registered root is a prefix of the reference
NoRoot(d, reference) == \A i \in 1..Len(d) : ~StartsWith(reference, d[i].key)

\* C5: when no registered root is a prefix of the reference, Database.add
\* returns false, leaves the database as it was, and no view returns the
\* object; registering a root afterwards makes no view return an object that
\* none returned before.
C5_RoutingMiss ==
  [][ /\ (last'.op = "Database.add" /\ NoRoot(db, last'.arg.object.reference)) =>
           /\ last'.ret = FALSE
           /\ db' = db
           /\ NotReturned(db', last'.arg.type, last'.arg.object)
      /\ (last'.op \in {"Database.newContainer", "Database.getContainer"} /\ db' # db) =>
           \A type \in Types : \A object \in Objects :
             NotReturned(db', type, object) \/ ~NotReturned(db, type, object)
    ]_vars

\* an add was turned down although a root is registered
C5_Witness ==
  /\ last.op = "Database.add"
  /\ last.ret = FALSE
  /\ Len(db) >= 1
  /\ NoRoot(db, last.arg.object.reference)

\* the references containers are looked up with
LookupStrings == References \cup Roots \cup Prefixes

\* C6: findContainers(reference) returns exactly the containers whose root is
\* a prefix of the reference, in registration order; findContainer(reference)
\* returns the first of them, or nothing when there is none.
C6_PrefixRouting ==
  \A reference \in LookupStrings :
    LET matching == {i \in 1..Len(db) : StartsWith(reference, db[i].key)}
        found == FindContainers(db, reference)
    IN /\ Len(found) = Cardinality(matching)
       /\ {found[n] : n \in 1..Len(found)} = matching
       /\ \A m \in 1..Len(found) : \A n \in 1..Len(found) : m < n => found[m] < found[n]
       /\ FindContainer(db, reference) = IF found = <<>> THEN 0 ELSE found[1]
       /\ matching # {} => \A i \in matching : FindContainer(db, reference) <= i

\* the roots "a" and "ab" are registered in that order: both hold "ab"
C6_Witness ==
  /\ last.op \in {"Database.newContainer", "Database.getContainer"}
  /\ Len(db) = 2
  /\ db[1].key = <<"a">>
  /\ db[2].key = <<"a", "b">>
  /\ FindContainers(db, <<"a", "b">>) = <<1, 2>>
  /\ FindContainer(db, <<"a", "b">>) = 1

\* the objects a database holds: [type, value]
StoredObjects(d) == {[type |-> e.type, value |-> e.value] : e \in Stored(d)}

\* the operation l deletes the object o = [type, value] stored in d, stores
\* another entry of its type, id and reference, or registers its root anew
Touches(l, d, o) ==
  \/ /\ l.op \in {"Database.add", "TypeDatabase.add"}
     /\ l.arg.type = o.type
     /\ IObjectEquals(l.arg.object, o.value)
  \/ l.op = "Database.deleteIf" /\ PredHolds(l.arg, o.value, o.value.id, o.type)
  \/ l.op = "TypeDatabase.delete" /\ l.arg.type = o.type /\ l.arg.id = o.value.id
  \/ l.op = "ReferenceDatabase.delete" /\ l.arg = o.value.reference
  \/ l.op = "ReferenceDatabase.deleteStartsWith" /\ StartsWith(o.value.reference, l.arg)
  \/ /\ l.op = "Database.newContainer"
     /\ \E e \in Stored(d) :
          e.type = o.type /\ e.value = o.value /\ d[e.slot].key = l.arg

\* C7: after Database.add(type, e) returns true the database holds e, and goes
\* on holding it through every operation that neither deletes e, nor adds
\* another entry of its type, id and reference, nor registers its root anew;
\* and whatever the database holds is in byType(type).get(id), in
\* byReference.get(reference) and is what find returns for it.
C7_CrossViewConsistency ==
  /\ [](\A o \in StoredObjects(db) : Found(db, o.type, o.value))
  /\ [][ LET after == StoredObjects(db')
         IN /\ (last'.op = "Database.add" /\ last'.ret = TRUE) =>
                 [type |-> last'.arg.type, value |-> last'.arg.object] \in after
            /\ db' = db \/ \A o \in StoredObjects(db) : ~Touches(last', db, o) => o \in after
       ]_vars

\* an object is still in the three views after a delete that took another one
C7_Witness ==
  /\ \/ last.op = "TypeDatabase.delete" /\ last.ret = TRUE
     \/ last.op \in {"Database.deleteIf", "ReferenceDatabase.delete"} /\ last.ret > 0
  /\ \E type \in Types : \E object \in Objects : Found(db, type, object)

\* C9 as stated: after Database.byReference.deleteStartsWith(p) no entry whose
\* reference starts with p is left in any container of the database.
C9_DeleteStartsWithComplete ==
  last.op = "ReferenceDatabase.deleteStartsWith" =>
    \A e \in Stored(db) : ~StartsWith(e.value.reference, last.arg)

\* C10 as stated: after Database.deleteIf(p) no entry that satisfies p is left
\* in any container of the database.
C10_DeleteIfComplete ==
  last.op = "Database.deleteIf" =>
    \A e \in Stored(db) : ~PredHolds(last.arg, e.value, e.id, e.type)

\* the sum, over the containers from slot i on, of what Container.deleteIf(p)
\* returns for the container
RECURSIVE ContainerCounts(_, _, _)
ContainerCounts(d, i, p) ==
  IF i > Len(d) THEN 0
  ELSE ContainerDeleteIf(d[i].value, p).ret + ContainerCounts(d, i + 1, p)

\* C11 as stated: Database.deleteIf(p) returns the sum, over all containers,
\* of the count that Container.deleteIf(p) returns for that container.
C11_DeleteIfSum ==
  [][ last'.op = "Database.deleteIf" => last'.ret = ContainerCounts(db, 1, last'.arg) ]_vars

\* the sum, over the slots found, of what the container-level reference
\* delete returns for the container
RECURSIVE ReferenceCounts(_, _, _, _)
ReferenceCounts(d, containers, reference, prefix) ==
  IF containers = <<>> THEN 0
  ELSE (IF prefix
        THEN ReferenceContainerDeleteStartsWith(d[Head(containers)].value, reference).ret
        ELSE ReferenceContainerDelete(d[Head(containers)].value, reference).ret)
       + ReferenceCounts(d, Tail(containers), reference, prefix)

\* C12 as stated: Database.byReference.delete(r) and deleteStartsWith(p) apply
\* the container-level reference delete to every container that findContainers
\* returns, leave the other containers alone, and return the sum of the
\* per-container counts, also when containers were written directly.
C12_ReferenceDeleteFanOut ==
  [][ last'.op \in {"ReferenceDatabase.delete", "ReferenceDatabase.deleteStartsWith"} =>
        LET prefix == last'.op = "ReferenceDatabase.deleteStartsWith"
            found == FindContainers(db, last'.arg)
            after(c) == IF prefix
                        THEN ReferenceContainerDeleteStartsWith(c, last'.arg).data
                        ELSE ReferenceContainerDelete(c, last'.arg).data
        IN /\ last'.ret = ReferenceCounts(db, found, last'.arg, prefix)
           /\ Len(db') = Len(db)
           /\ \A i \in 1..Len(db) :
                /\ db'[i].key = db[i].key
                /\ db'[i].value =
                     IF \E n \in 1..Len(found) : found[n] = i
                     THEN after(db[i].value)
                     ELSE db[i].value
    ]_vars

\* C13 as stated: after Database.byType(type).delete(id), byType(type).get(id)
\* returns an empty list: no container holds an entry for id under type.
C13_TypeDeleteClears ==
  last.op = "TypeDatabase.delete" =>
    /\ TypeDatabaseGet(db, last.arg.type, last.arg.id).ret = <<>>
    /\ \A e \in Stored(db) : ~(e.type = last.arg.type /\ e.id = last.arg.id)

(***************************************************************************)
(* Properties of the delete operations at every level.                     *)
(***************************************************************************)
\* the delete operations that return a boolean, and those that return a count
BooleanDeletes ==
  {"Set.delete", "Container.delete(type)", "Container.delete", "TypeDatabase.delete"}

CountDeletes ==
  {"Set.deleteIf", "Container.deleteIf", "ReferenceContainer.delete",
   "ReferenceContainer.deleteStartsWith", "Database.deleteIf",
   "ReferenceDatabase.delete", "ReferenceDatabase.deleteStartsWith"}

\* the operations l and m are the same call: same operation, same argument
SameCall(l, m) ==
  /\ l.op = m.op
  /\ IF l.op \in {"Set.deleteIf", "Container.deleteIf", "Database.deleteIf"}
     THEN l.arg.kind = m.arg.kind /\ l.arg.arg = m.arg.arg
     ELSE l.arg = m.arg

\* the operation l reports that nothing was removed
NothingRemoved(l) ==
  IF l.op \in BooleanDeletes THEN l.ret = FALSE ELSE l.ret = 0

\* the entries stored at the three levels are the same in both states
SameEntries(s, c, d, t, e, f) ==
  /\ \A id \in Ids : Group(s, id) = Group(t, id)
  /\ ContainerStored(c) = ContainerStored(e)
  /\ Stored(d) = Stored(f)

\* C14 as stated: a delete operation repeated immediately with the same
\* argument returns false / 0 and leaves the stored entries unchanged.
C14_DeleteIdempotent ==
  [][ (last'.op \in BooleanDeletes \cup CountDeletes /\ SameCall(last, last')) =>
        /\ NothingRemoved(last')
        /\ SameEntries(set, col, db, set', col', db')
    ]_vars

\* the operation l, about to run on the Set s, the Container c or the
\* Database d, finds nothing stored to delete
NothingToDelete(l, s, c, d) ==
  CASE l.op = "Set.delete" -> Group(s, l.arg) = <<>>
    [] l.op = "Set.deleteIf" ->
         \A id \in Ids : \A n \in 1..Len(Group(s, id)) :
           ~PredHolds(l.arg, Group(s, id)[n], id, Undefined)
    [] l.op = "Container.delete(type)" ->
         \A e \in ContainerStored(c) : e.type # l.arg.type
    [] l.op = "Container.delete" ->
         \A e \in ContainerStored(c) : ~(e.type = l.arg.type /\ e.id = l.arg.id)
    [] l.op = "Container.deleteIf" ->
         \A e \in ContainerStored(c) : ~PredHolds(l.arg, e.value, e.id, e.type)
    [] l.op \in {"ReferenceContainer.delete", "ReferenceContainer.deleteStartsWith"} ->
         \A e \in ContainerStored(c) : ~PredHolds(LastReferencePred(l), e.value, e.id, e.type)
    [] l.op = "Database.deleteIf" ->
         \A e \in Stored(d) : ~PredHolds(l.arg, e.value, e.id, e.type)
    [] l.op = "ReferenceDatabase.delete" ->
         \A e \in Stored(d) : e.value.reference # l.arg
    [] l.op = "ReferenceDatabase.deleteStartsWith" ->
         \A e \in Stored(d) : ~StartsWith(e.value.reference, l.arg)
    [] OTHER -> FALSE

\* C15 as stated: a delete that finds nothing stored to delete returns
\* false / 0 and leaves the stored entries unchanged.
C15_DeleteAbsent ==
  [][ NothingToDelete(last', set, col, db) =>
        /\ NothingRemoved(last')
        /\ SameEntries(set, col, db, set', col', db')
    ]_vars

(***************************************************************************)
(* Properties of the Database, continued.                                  *)
(***************************************************************************)
\* C16: in a database written through its own interface, byReference.get(r)
\* returns exactly the stored entries whose reference is r: each of them once,
\* and nothing else.
C16_ReferenceGetExact ==
  \A r \in LookupStrings :
    LET result == ReferenceDatabaseGet(db, r)
        stored == {e \in Stored(db) : e.value.reference = r}
    IN /\ Len(result) = Cardinality(stored)
       /\ \A n \in 1..Len(result) :
            result[n].reference = r /\ \E e \in stored : e.value = result[n]
       /\ \A e \in stored : \E n \in 1..Len(result) : result[n] = e.value

\* the roots "ab" and "a" hold one entry each; byReference.get returns the one
\* of reference "ab" for "ab" and nothing for "a"
C16_Witness ==
  /\ Len(db) = 2
  /\ \E e \in Stored(db) : e.slot = 1 /\ e.value.reference = <<"a", "b">>
  /\ \E e \in Stored(db) : e.slot = 2 /\ e.value.reference = <<"a", "c">>
  /\ Len(ReferenceDatabaseGet(db, <<"a", "b">>)) >= 1
  /\ ReferenceDatabaseGet(db, <<"a">>) = <<>>

\* the first slot whose root is a prefix of the reference
FirstRoot(d, reference) ==
  CHOOSE i \in 1..Len(d) :
    /\ StartsWith(reference, d[i].key)
    /\ \A j \in 1..(i - 1) : ~StartsWith(reference, d[j].key)

\* C17: when a registered root is a prefix of e.reference, Database.add(type, e)
\* returns true and stores e in one place, the Set of category type of the
\* first registered container whose root is such a prefix, where it takes the
\* place of the entry of its id and reference, if any; the other containers,
\* the other categories of that container and the other entries of that Set
\* are as before.
C17_AddFrame ==
  [][ (last'.op = "Database.add" /\ ~NoRoot(db, last'.arg.object.reference)) =>
        LET type == last'.arg.type
            e == last'.arg.object
            i == FirstRoot(db, e.reference)
            here(o) == o.slot = i /\ o.type = type /\ IObjectEquals(o.value, e)
        IN /\ last'.ret = TRUE
           /\ Stored(db') = {o \in Stored(db) : ~here(o)}
                              \cup {[slot |-> i, type |-> type, id |-> e.id, value |-> e]}
           /\ Len(db') = Len(db)
           /\ \A j \in 1..Len(db) :
                /\ db'[j].key = db[j].key
                /\ j # i => db'[j].value = db[j].value
           /\ \A t \in Types \ {type} :
                /\ MapHas(db'[i].value, t) = MapHas(db[i].value, t)
                /\ MapHas(db[i].value, t) => MapGet(db'[i].value, t) = MapGet(db[i].value, t)
    ]_vars

\* an add of reference "ab" succeeded with the roots "ab" and "a" registered:
\* the entry is in the first container only, the second one holds another
C17_Witness ==
  /\ last.op = "Database.add"
  /\ last.ret = TRUE
  /\ last.arg.object.reference = <<"a", "b">>
  /\ Len(db) = 2
  /\ \A i \in 1..2 : StartsWith(<<"a", "b">>, db[i].key)
  /\ \E o \in Stored(db) : o.slot = 1 /\ o.type = last.arg.type /\ o.value = last.arg.object
  /\ \A o \in Stored(db) : o.slot = 2 => o.value.reference # <<"a", "b">>
  /\ \E o \in Stored(db) : o.slot = 2

\* C18: getContainer(root) returns the container bound to root and leaves the
\* database as it is when root is bound, and binds an empty container after
\* the registered ones when it is not; a getContainer(root) that follows a
\* getContainer(root) returns the same container and changes nothing.
C18_GetContainerIdempotent ==
  [][ last'.op = "Database.getContainer" =>
        /\ IF MapHas(db, last'.arg)
           THEN db' = db /\ last'.ret = KeyIndex(db, last'.arg)
           ELSE /\ db' = Append(db, [key |-> last'.arg, value |-> NewContainer])
                /\ last'.ret = Len(db) + 1
        /\ (last.op = "Database.getContainer" /\ last.arg = last'.arg) =>
             last'.ret = last.ret /\ db' = db
    ]_vars

\* getContainer returned a container that holds entries, next to another root
C18_Witness ==
  /\ last.op = "Database.getContainer"
  /\ Len(db) = 2
  /\ \E e \in Stored(db) : e.slot = last.ret
  /\ db[last.ret].key = last.arg

(***************************************************************************)
(* Properties of the queries at every level.                               *)
(***************************************************************************)
\* the Sets of a container, with the category they stand for
SetsOf(c) == {[type |-> c[k].key, data |-> c[k].value] : k \in 1..Len(c)}

\* the containers of the state: the stand-alone one and those of the database
AllContainers == {col} \cup {db[i].value : i \in 1..Len(db)}

\* the entries of a Set: [id, value]
SetStored(s) ==
  UNION {{[id |-> s[g].key, value |-> s[g].value[n]] : n \in 1..Len(s[g].value)}
         : g \in 1..Len(s)}

\* what a query returns for a missing key: undefined or an empty list
IsAbsent(r) == r = Undefined \/ r = [values |-> <<>>]

\* C19: a query whose id, reference or predicate matches no stored entry
\* returns an empty result: Set.get and Container.get return undefined or an
\* empty list, byType(type).get and byReference.get an empty list, and find
\* returns undefined at every level.
C19_MissingKeyQueries ==
  LET preds == SetPreds \cup TypePreds
      inSet == SetStored(set)
      inDb == Stored(db)
  IN /\ \A id \in Ids : Group(set, id) = <<>> => IsAbsent(SetGet(set, id))
     /\ \A p \in SetPreds :
          (\A e \in inSet : ~PredHolds(p, e.value, e.id, Undefined))
            => SetFind(set, Undefined, p) = Undefined
     /\ \A c \in AllContainers :
          LET inContainer == ContainerStored(c)
          IN /\ \A s \in SetsOf(c) :
                  LET inS == SetStored(s.data)
                  IN /\ \A id \in Ids :
                          Group(s.data, id) = <<>> => IsAbsent(SetGet(s.data, id))
                     /\ \A p \in preds :
                          (\A e \in inS : ~PredHolds(p, e.value, e.id, s.type))
                            => SetFind(s.data, s.type, p) = Undefined
             /\ \A type \in Types : \A id \in Ids :
                  (\A e \in inContainer : ~(e.type = type /\ e.id = id))
                    => IsAbsent(ContainerGet(c, type, id).ret)
             /\ \A p \in preds :
                  (\A e \in inContainer : ~PredHolds(p, e.value, e.id, e.type))
                    => ContainerFind(c, p) = Undefined
     /\ \A type \in Types : \A id \in Ids :
          (\A e \in inDb : ~(e.type = type /\ e.id = id))
            => TypeDatabaseGet(db, type, id).ret = <<>>
     /\ \A r \in LookupStrings :
          (\A e \in inDb : e.value.reference # r) => ReferenceDatabaseGet(db, r) = <<>>
     /\ \A p \in preds :
          (\A e \in inDb : ~PredHolds(p, e.value, e.id, e.type))
            => DatabaseFind(db, p) = Undefined

\* byType(type).get(id) returned an empty list from a database that holds
\* entries, none of them of that type and id, one of them of that id
C19_Witness ==
  /\ last.op = "TypeDatabase.get"
  /\ last.ret = <<>>
  /\ \E e \in Stored(db) : e.id = last.arg.id /\ e.type # last.arg.type
  /\ \A e \in Stored(db) : ~(e.type = last.arg.type /\ e.id = last.arg.id)
  /\ DatabaseFind(db, IdPred(last.arg.id)) # Undefined

\* C20: byType(type).sets() returns one Set per registered container, in
\* registration order: the n-th Set returned is the Set of the category in the
\* n-th container, an empty one where the container held no Set of the
\* category; the stored entries are as before.
C20_SetsPerContainer ==
  [][ last'.op = "TypeDatabase.sets" =>
        /\ Len(last'.ret) = Len(db)
        /\ Len(db') = Len(db)
        /\ \A i \in 1..Len(db) :
             /\ db'[i].key = db[i].key
             /\ MapHas(db'[i].value, last'.arg)
             /\ last'.ret[i] = MapGet(db'[i].value, last'.arg)
             /\ last'.ret[i] = IF MapHas(db[i].value, last'.arg)
                               THEN MapGet(db[i].value, last'.arg)
                               ELSE NewSet
        /\ Stored(db') = Stored(db)
    ]_vars

\* sets() returned two Sets for two roots: the first holds an entry, the
\* second is empty
C20_Witness ==
  /\ last.op = "TypeDatabase.sets"
  /\ Len(db) = 2
  /\ Len(last.ret) = 2
  /\ SetStored(last.ret[1]) # {}
  /\ last.ret[2] = NewSet

(***************************************************************************)
(* Properties of IObject.equals.                                           *)
(***************************************************************************)
\* C21: IObject.equals(a, b) is true exactly when the ids and the references
\* agree; the result is the same for any two objects with the ids and
\* references of a and b, whatever else they carry; equals(a, a) is true and
\* equals(b, a) is equals(a, b).
C21_EqualsIdReference ==
  last.op = "IObject.equals" =>
    LET a == last.arg.a
        b == last.arg.b
    IN /\ last.ret = IObjectEquals(a, b)
       /\ last.ret <=> (a.id = b.id /\ a.reference = b.reference)
       /\ \A c \in IObjects : \A d \in IObjects :
            ( /\ c.id = a.id /\ c.reference = a.reference
              /\ d.id = b.id /\ d.reference = b.reference ) =>
              IObjectEquals(c, d) = last.ret
       /\ IObjectEquals(a, a)
       /\ IObjectEquals(b, a) = last.ret

\* a bare object and one that carries a payload were found equal
C21_Witness ==
  /\ last.op = "IObject.equals"
  /\ last.ret = TRUE
  /\ DOMAIN last.arg.a # DOMAIN last.arg.b

(***************************************************************************)
(* Properties of the Set, continued.                                       *)
(***************************************************************************)
\* the positions of the list that hold an entry of the reference
PositionsOf(list, reference) == {i \in 1..Len(list) : list[i].reference = reference}

\* the groups of the ids other than id are the same in s and t, and as present
OtherGroupsSame(s, t, id) ==
  \A other \in Ids \ {id} : MapHas(s, other) = MapHas(t, other) /\ Group(s, other) = Group(t, other)

\* C22 as stated: when the group of entry.id holds an entry of the same
\* reference at position i, Set.add puts the new entry at position i and leaves
\* the length and every other position unchanged; when the group holds no
\* entry of that reference, add appends the entry.
C22_ReplaceAtEveryPosition ==
  [][ last'.op = "Set.add" =>
        LET e == last'.arg
            old == Group(set, e.id)
            new == Group(set', e.id)
        IN /\ \A i \in PositionsOf(old, e.reference) :
                /\ new[i] = e
                /\ Len(new) = Len(old)
                /\ \A j \in 1..Len(old) : j # i => new[j] = old[j]
           /\ PositionsOf(old, e.reference) = {} => new = Append(old, e)
    ]_vars

\* C22, amended: when the group of entry.id holds entries of the same
\* reference, Set.add puts the new entry at the first position i that holds
\* one and leaves the length and every other position unchanged; when the
\* group holds no entry of that reference, add appends the entry at the end and
\* leaves the existing positions unchanged.  The groups of the other ids are
\* as before.
C22_ReplaceInPlace ==
  [][ last'.op = "Set.add" =>
        LET e == last'.arg
            old == Group(set, e.id)
            new == Group(set', e.id)
            at == PositionsOf(old, e.reference)
        IN /\ \A i \in at :
                (\A k \in at : i <= k) =>
                  /\ new[i] = e
                  /\ Len(new) = Len(old)
                  /\ \A j \in 1..Len(old) : j # i => new[j] = old[j]
           /\ at = {} => new = Append(old, e)
           /\ OtherGroupsSame(set, set', e.id)
    ]_vars

\* an add replaced the second of two entries that Set.set had stored, by an
\* entry of its reference and another payload
C22_Witness ==
  /\ last.op = "Set.add"
  /\ prev.op = "Set.set"
  /\ prev.arg.id = last.arg.id
  /\ Len(prev.arg.value) = 2
  /\ prev.arg.value[1].reference # last.arg.reference
  /\ prev.arg.value[2].reference = last.arg.reference
  /\ prev.arg.value[2] # last.arg
  /\ Group(set, last.arg.id) = <<prev.arg.value[1], last.arg>>

DeletePred(l) ==
  IF l.op \in {"Container.deleteIf", "Database.deleteIf", "Set.deleteIf"}
  THEN l.arg
  ELSE IF l.op \in {"ReferenceContainer.delete", "ReferenceDatabase.delete"}
       THEN RefPred(l.arg)
       ELSE StartPred(l.arg)

InList(list, value) == \E n \in 1..Len(list) : list[n] = value

\* C25: in a database written through its own interface, newContainer(root) on
\* a bound root binds an empty container in its place: no view (byType.get,
\* byReference.get, find, filter) returns an entry that the old container
\* held, and the other roots, their order and their containers are as before.
C25_NewContainerReplaces ==
  [][ (last'.op = "Database.newContainer" /\ MapHas(db, last'.arg)) =>
        LET i == KeyIndex(db, last'.arg)
        IN /\ Len(db') = Len(db)
           /\ db'[i] = [key |-> last'.arg, value |-> NewContainer]
           /\ \A j \in 1..Len(db) : j # i => db'[j] = db[j]
           /\ \A e \in Stored(db) :
                e.slot = i =>
                  /\ \A type \in Types : NotReturned(db', type, e.value)
                  /\ ~InList(DatabaseFilter(db', AllPred), e.value)
    ]_vars

\* the first of two roots was bound anew: its container is empty, the
\* container of the other root holds its entries
C25_Witness ==
  /\ last.op = "Database.newContainer"
  /\ Len(db) = 2
  /\ last.ret = 1
  /\ db[1].value = NewContainer
  /\ \E e \in Stored(db) : e.slot = 2

(***************************************************************************)
(* Properties of the categories of a Container.                            *)
(***************************************************************************)
\* the operations of a Container that go through _getSet(type)
TouchesCategory ==
  {"Container.get(type)", "Container.get", "Container.has", "Container.add",
   "Container.delete"}

\* C26: a category is present in the container after get(type), get(type, id),
\* has(type, id), add(type, e) or delete(type, id); a category that is present
\* stays present through every operation but delete(type) for it; delete(type)
\* of a category that is present returns true and leaves it absent.
C26_LazyCategoryPresence ==
  [][ /\ last'.op \in TouchesCategory => MapHas(col', last'.arg.type)
      /\ \A type \in Types :
           (MapHas(col, type) /\ ~(last'.op = "Container.delete(type)" /\ last'.arg.type = type))
             => MapHas(col', type)
      /\ last'.op = "Container.delete(type)" =>
           /\ last'.ret = MapHas(col, last'.arg.type)
           /\ ~MapHas(col', last'.arg.type)
    ]_vars

\* has(type, id) answered false for a category that no entry was ever added
\* to: the category is present, with an empty Set, next to one that holds entries
C26_Witness ==
  /\ last.op = "Container.has"
  /\ last.ret = FALSE
  /\ MapHas(col, last.arg.type)
  /\ MapGet(col, last.arg.type) = NewSet
  /\ ContainerStored(col) # {}

\* the Set of a category of the container, an empty one when it is absent
CategoryOf(c, type) == IF MapHas(c, type) THEN MapGet(c, type) ELSE NewSet

\* C27: Container.add(type, e), delete(type) and delete(type, id) change the
\* Set of that category only: the other categories are as present as before
\* and hold the same Sets; add and delete(type, id) change the group of that
\* id only, delete(type, id) removes it and returns whether the id was bound;
\* after add(type, e) the category holds e, next to whatever equal entries the
\* other categories hold.
C27_CategoryScopedWrites ==
  [][ last'.op \in {"Container.add", "Container.delete(type)", "Container.delete"} =>
        LET type == last'.arg.type
            old == CategoryOf(col, type)
            new == CategoryOf(col', type)
        IN /\ \A t \in Types \ {type} :
                /\ MapHas(col', t) = MapHas(col, t)
                /\ CategoryOf(col', t) = CategoryOf(col, t)
           /\ last'.op = "Container.add" =>
                /\ OtherGroupsSame(old, new, last'.arg.value.id)
                /\ InList(Group(new, last'.arg.value.id), last'.arg.value)
           /\ last'.op = "Container.delete" =>
                /\ OtherGroupsSame(old, new, last'.arg.id)
                /\ ~MapHas(new, last'.arg.id)
                /\ last'.ret = MapHas(old, last'.arg.id)
           /\ last'.op = "Container.delete(type)" => new = NewSet
    ]_vars

\* delete(type, id) removed an id from one category; the other category
\* still holds an entry of that id, and the category another id
C27_Witness ==
  /\ last.op = "Container.delete"
  /\ last.ret = TRUE
  /\ \E e \in ContainerStored(col) : e.type # last.arg.type /\ e.id = last.arg.id
  /\ \E e \in ContainerStored(col) : e.type = last.arg.type /\ e.id # last.arg.id

(***************************************************************************)
(* Properties of the traversals.                                           *)
(***************************************************************************)
\* where the entries of the database d are: <<slot of the container,
\* position of the category, position of the id-group, position in the list>>
EntryPositions(d) ==
  UNION {UNION {UNION {{<<i, k, g, n>> : n \in 1..Len(d[i].value[k].value[g].value)} :
                       g \in 1..Len(d[i].value[k].value)} :
                k \in 1..Len(d[i].value)} :
         i \in 1..Len(d)}

\* the entry at a position, with its id and its category
EntryAt(d, pos) ==
  LET category == d[pos[1]].value[pos[2]]
      group == category.value[pos[3]]
  IN [value |-> group.value[pos[4]], id |-> group.key, type |-> category.key]

\* the lexicographic order of the positions
Precedes(p, q) ==
  \E j \in 1..4 : p[j] < q[j] /\ \A h \in 1..(j - 1) : p[h] = q[h]

\* the rank of position p among the positions S
RankAmong(S, p) == Cardinality({q \in S : Precedes(q, p)}) + 1

\* forEach calls the callback once per position, filter returns the entries at
\* the positions that satisfy the predicate, both in the order of the positions
TraversalInOrder ==
  /\ last.op = "Database.forEach" =>
       LET P == EntryPositions(db)
       IN /\ Len(last.ret) = Cardinality(P)
          /\ \A pos \in P : last.ret[RankAmong(P, pos)] = EntryAt(db, pos)
  /\ last.op = "Database.filter" =>
       LET S == {pos \in EntryPositions(db) :
                   LET e == EntryAt(db, pos)
                   IN PredHolds(last.arg, e.value, e.id, e.type)}
       IN /\ Len(last.ret) = Cardinality(S)
          /\ \A pos \in S : last.ret[RankAmong(S, pos)] = EntryAt(db, pos).value

\* the keys of an ordered map
KeysOf(m) == {m[i].key : i \in 1..Len(m)}

\* from m to n the keys that stay keep their order and a new key goes last
InsertionOrderKept(m, n) ==
  /\ \A k \in KeysOf(n) \ KeysOf(m) : KeyIndex(n, k) = Len(n)
  /\ \A k, h \in KeysOf(n) \cap KeysOf(m) :
       KeyIndex(m, k) < KeyIndex(m, h) <=> KeyIndex(n, k) < KeyIndex(n, h)

\* from m to n the keys that stay keep their order, a new key that is an array
\* index goes after the array indices below it and before every other key, and
\* any other new key goes last
EnumerationOrderKept(m, n) ==
  /\ \A k \in KeysOf(n) \ KeysOf(m) :
       IF k \in DOMAIN IndexOf
       THEN \A h \in KeysOf(n) \ {k} :
              KeyIndex(n, h) < KeyIndex(n, k)
                <=> (h \in DOMAIN IndexOf /\ IndexOf[h] < IndexOf[k])
       ELSE KeyIndex(n, k) = Len(n)
  /\ \A k, h \in KeysOf(n) \cap KeysOf(m) :
       KeyIndex(m, k) < KeyIndex(m, h) <=> KeyIndex(n, k) < KeyIndex(n, h)

\* the container registered for root in d, an empty one when there is none
ContainerAt(d, root) == IF MapHas(d, root) THEN MapGet(d, root) ELSE NewContainer

\* the Set of the category in the container c, an empty one when there is none
SetAt(c, type) == IF MapHas(c, type) THEN MapGet(c, type) ELSE NewSet

\* from the Set before to the Set after, a new id-group has gone last and the
\* object of the step has gone last in its list
SetInsertionsLast(before, after, object) ==
  \/ after = before
  \/ /\ InsertionOrderKept(before, after)
     /\ \A id \in KeysOf(after) :
          Len(Group(after, id)) > Len(Group(before, id))
            => Group(after, id) = Append(Group(before, id), object)

\* a step registers a new root last, puts a new id-group last in its Set and a
\* new entry last in its list
InsertionsLast ==
  \/ db' = db
  \/ /\ InsertionOrderKept(db, db')
     /\ \A root \in KeysOf(db') :
          \A c \in {ContainerAt(db, root)} : \A c2 \in {ContainerAt(db', root)} :
            \/ c2 = c
            \/ \A type \in KeysOf(c2) :
                 \A before \in {SetAt(c, type)} : \A after \in {SetAt(c2, type)} :
                   SetInsertionsLast(before, after, last'.arg.object)

FirstOf(list) == IF list = <<>> THEN Undefined ELSE list[1]

\* find and filter of every Set and of every Container of the database agree
FindIsFirstInside(p) ==
  \A i \in 1..Len(db) : \A c \in {db[i].value} :
    /\ ContainerFind(c, p) = FirstOf(ContainerFilter(c, p))
    /\ ContainerFind(c, p) = Undefined <=> ContainerFilter(c, p) = <<>>
    /\ \A k \in 1..Len(c) : \A s \in {c[k].value} :
         /\ SetFind(s, c[k].key, p) = FirstOf(SetFilter(s, c[k].key, p))
         /\ SetFind(s, c[k].key, p) = Undefined <=> SetFilter(s, c[k].key, p) = <<>>

\* what a find has returned is the first element of what filter returns for
\* the same predicate in the state the find was called in
FindReturnsFirst ==
  /\ last'.op = "Database.find" =>
       \A found \in {DatabaseFilter(db, last'.arg)} :
         /\ last'.ret = FirstOf(found)
         /\ last'.ret = Undefined <=> found = <<>>
  /\ last'.op = "TypeDatabase.find" =>
       \A found \in {TypeDatabaseFilter(db, last'.arg.type, last'.arg.p).ret} :
         /\ last'.ret = FirstOf(found)
         /\ last'.ret = Undefined <=> found = <<>>

\* C29: at each level (Set, Container, Database, byType view), find(p) returns
\* the first element of filter(p) for the same predicate and state, and
\* returns undefined exactly when filter(p) is empty.
C29_FindIsFirstOfFilter ==
  /\ [](\A p \in TypePreds : FindIsFirstInside(p))
  /\ [][FindReturnsFirst]_vars

\* Database.find has returned an entry, and filter returns it and then a
\* different one
C29_Witness ==
  /\ last.op = "Database.find"
  /\ last.ret # Undefined
  /\ \A found \in {DatabaseFilter(db, last.arg)} :
       Len(found) >= 2 /\ found[1] = last.ret /\ found[2] # last.ret

(***************************************************************************)
(* Properties of Set.set.                                                  *)
(***************************************************************************)
\* C30: Set.set(id, list) replaces the whole group of id: after it get(id)
\* returns exactly list and has(id) is true, whatever the group held before,
\* the groups of the other ids are unchanged, and list is stored as it is, with
\* the entries that share a reference.
C30_SetReplacesGroup ==
  [][last'.op = "Set.set" =>
       \A id \in {last'.arg.id} : \A list \in {last'.arg.value} :
         /\ SetGet(set', id) = [values |-> list]
         /\ SetHas(set', id)
         /\ OtherGroupsSame(set, set', id)]_vars

\* set has stored a list of two entries with one reference in the place of the
\* group that the add before it had written, and the other id has a group
C30_Witness ==
  /\ last.op = "Set.set"
  /\ prev.op = "Set.add"
  /\ prev.arg.id = last.arg.id
  /\ Len(last.arg.value) = 2
  /\ last.arg.value[1].reference = last.arg.value[2].reference
  /\ prev.arg \notin {last.arg.value[1], last.arg.value[2]}
  /\ SetGet(set, last.arg.id) = [values |-> last.arg.value]
  /\ \E other \in Ids \ {last.arg.id} : Group(set, other) # <<>>

(***************************************************************************)
(* Properties of the reference views of a Set and of a Container.          *)
(***************************************************************************)
\* a database of the one container c, and a container of the one category
OneContainer(c) == <<[key |-> <<"a">>, value |-> c]>>
OneCategory(type, s) == <<[key |-> type, value |-> s]>>

\* result lists the entries of d whose reference is r, each stored position
\* once, in the order of the positions
ReferenceGetInOrder(result, d, r) ==
  \A S \in {{pos \in EntryPositions(d) : EntryAt(d, pos).value.reference = r}} :
    /\ Len(result) = Cardinality(S)
    /\ \A pos \in S : result[RankAmong(S, pos)] = EntryAt(d, pos).value

\* C31: Set.byReference.get(r) and Container.byReference.get(r) return exactly
\* the stored entries whose reference equals r, across all ids (and all
\* categories for a Container), in traversal order; an entry of the same id and
\* another reference is not returned.
C31_ReferenceViewGet ==
  /\ last.op = "ReferenceContainer.get" =>
       ReferenceGetInOrder(last.ret, OneContainer(col), last.arg)
  /\ last.op = "ReferenceSet.get" =>
       ReferenceGetInOrder(last.ret,
                           OneContainer(OneCategory(last.arg.type, MapGet(col, last.arg.type))),
                           last.arg.reference)

\* Container.byReference.get has returned two entries, and the container
\* holds an entry with the id of one of them and another reference
C31_Witness ==
  /\ last.op = "ReferenceContainer.get"
  /\ Len(last.ret) >= 2
  /\ \E e \in ContainerStored(col) : \E n \in 1..Len(last.ret) :
       e.value.id = last.ret[n].id /\ e.value.reference # last.arg

(***************************************************************************)
(* Properties of the queries.                                              *)
(***************************************************************************)
\* the queries that go through Container._getSet(type) for a type they are given
LazyQueries ==
  {"Container.get(type)", "Container.get", "Container.has", "TypeDatabase.get",
   "TypeDatabase.find", "TypeDatabase.filter", "TypeDatabase.forEach", "TypeDatabase.sets"}

\* the queries
Queries ==
  LazyQueries \cup
  {"Set.get", "Set.has", "Set.find", "Set.filter", "Set.forEach",
   "Container.find", "Container.filter", "Container.forEach", "ReferenceContainer.get",
   "Database.find", "Database.filter", "Database.forEach", "Database.findContainer",
   "Database.findContainers", "ReferenceDatabase.get"}

\* the container c2 is the container c with empty Sets for categories that c
\* does not have
OnlyEmptyCategoriesMore(c, c2) ==
  /\ SelectSeq(c2, LAMBDA r : MapHas(c, r.key)) = c
  /\ \A type \in KeysOf(c2) \ KeysOf(c) : MapGet(c2, type) = NewSet
  /\ ContainerStored(c2) = ContainerStored(c)

\* C32: a query leaves the registered roots and every stored entry unchanged;
\* the only change it may make is that a container has an empty Set for a
\* category it did not have, and only Container.get, Container.has and the
\* queries of a byType view make it.
C32_QueriesKeepData ==
  [][last'.op \in Queries =>
       /\ Len(db') = Len(db)
       /\ \A i \in 1..Len(db) :
            /\ db'[i].key = db[i].key
            /\ \A c \in {db[i].value} : \A c2 \in {db'[i].value} :
                 \/ c2 = c
                 \/ last'.op \in LazyQueries /\ OnlyEmptyCategoriesMore(c, c2)]_vars

\* byType(type).get(id) has returned an entry of one container and left an
\* empty Set for the category in another one
C32_Witness ==
  /\ last.op = "TypeDatabase.get"
  /\ Len(last.ret) >= 1
  /\ \E i \in 1..Len(db) :
       MapHas(db[i].value, last.arg.type) /\ MapGet(db[i].value, last.arg.type) = NewSet

(***************************************************************************)
(* Invariants of a Database that is written through its own interface.     *)
(***************************************************************************)
\* C33: every stored entry sits in the container of the first registered
\* root, in registration order, that is a prefix of the reference of the entry.
C33_Placement ==
  \A e \in Stored(db) :
    /\ ~NoRoot(db, e.value.reference)
    /\ e.slot = FirstRoot(db, e.value.reference)

\* the roots "a" and "ab" are registered in that order and an entry of
\* reference "ab" has been added: it is in the container of "a", the container
\* of "ab" is empty
C33_Witness ==
  /\ last.op \in {"Database.add", "TypeDatabase.add"}
  /\ last.arg.object.reference = <<"a", "b">>
  /\ Len(db) = 2
  /\ db[1].key = <<"a">>
  /\ db[2].key = <<"a", "b">>
  /\ \E e \in Stored(db) : e.slot = 1 /\ e.value = last.arg.object
  /\ ContainerStored(db[2].value) = {}

\* C34: a newContainer or getContainer call, for a new root or for a root
\* that is registered, leaves every reference that findContainer resolves to a
\* root resolving to the same root, and leaves every registered root at its
\* position in the registration order.
C34_FirstMatchStable ==
  [][last'.op \in {"Database.newContainer", "Database.getContainer"} =>
       /\ \A reference \in LookupStrings :
            \A found \in {FindContainer(db, reference)} :
              found # 0 =>
                \A after \in {FindContainer(db', reference)} :
                  after # 0 /\ db'[after].key = db[found].key
       /\ \A i \in 1..Len(db) : KeyIndex(db', db[i].key) = i]_vars

\* the root "ab", registered before "a", has been registered again by
\* newContainer: it is still the first root, "ab" resolves to it and "ac" to
\* the root "a", whose container holds an entry
C34_Witness ==
  /\ last.op = "Database.newContainer"
  /\ last.arg = <<"a", "b">>
  /\ Len(db) = 2
  /\ db[2].key = <<"a">>
  /\ FindContainer(db, <<"a", "b">>) = 1
  /\ FindContainer(db, <<"a", "c">>) = 2
  /\ ContainerStored(db[2].value) # {}

\* C35: at most one entry is stored for a category, an id and a reference,
\* over all the containers, and byType(type).get(id) returns no two entries of
\* one reference.
C35_DatabaseWideUniqueness ==
  /\ \A P \in {EntryPositions(db)} : \A pos \in P : \A other \in P :
       \A e \in {EntryAt(db, pos)} : \A o \in {EntryAt(db, other)} :
         (e.type = o.type /\ e.value.id = o.value.id
            /\ e.value.reference = o.value.reference) => pos = other
  /\ \A type \in Types : \A id \in Ids :
       \A result \in {TypeDatabaseGet(db, type, id).ret} :
         \A m \in 1..Len(result) : \A n \in 1..Len(result) :
           result[m].reference = result[n].reference => m = n

\* two containers hold an entry of one category and one id each, of different
\* references, an entry of that id and reference "ab" has been added again, and
\* byType(type).get(id) returns the two
C35_Witness ==
  /\ last.op \in {"Database.add", "TypeDatabase.add"}
  /\ last.arg.object.payload = "p2"
  /\ Len(db) = 2
  /\ \A result \in {TypeDatabaseGet(db, last.arg.type, last.arg.object.id).ret} :
       /\ Len(result) = 2
       /\ result[1] = last.arg.object
       /\ result[2].reference = <<"a", "c">>

(***************************************************************************)
(* Invariants of a Set that is written through add, delete and deleteIf.   *)
(***************************************************************************)
\* C36: every entry stored in the group keyed by id has that id.
C36_KeyConsistency ==
  \A g \in 1..Len(set) : \A n \in 1..Len(set[g].value) :
    set[g].value[n].id = set[g].key

\* add has put a second entry into the group of its id, next to a group of the
\* other id that holds two entries
C36_Witness ==
  /\ last.op = "Set.add"
  /\ Len(set) = 2
  /\ \A g \in 1..Len(set) : Len(set[g].value) = 2
  /\ Group(set, last.arg.id)[2] = last.arg

=============================================================================
